---- MODULE Spec2Model ----
(***************************************************************************)
(* Model of the LLM content-generation subsystem of courtesy_agent        *)
(* (src/src/server/llm_generator.py): the multi-model fallback engine      *)
(* generate_email_content with its process-wide quota-timestamp map        *)
(* (specification Spec), of the orchestrator main with get_contacts        *)
(* (src/src/server/main.py, specification MainSpec), and of several        *)
(* threads inside generate_email_content at once (ConcurrentSpec); of the  *)
(* module attribute tests/test_quota_optimization.py sets (FlagSpec); and   *)
(* of the OAuth flow authenticate of src/src/server/linkedin_api.py with    *)
(* its callback handler (AuthSpec).                                        *)
(*                                                                         *)
(* Python strings are sequences of one-character strings.  The clock is    *)
(* counted in ticks of 1/TicksPerSecond second, so that the float clock    *)
(* of time.time() keeps a fractional part and int() has something to cut.  *)
(***************************************************************************)
EXTENDS Integers, Sequences, FiniteSets, TLC

(***************************************************************************)
(* Bounds of the model.                                                    *)
(***************************************************************************)
\* clock resolution: ticks per second
TicksPerSecond == 2
\* generate_email_content is only started while the clock is at most this many seconds
MaxStartSeconds == 75
\* the number of generate_email_content calls one process makes
MaxCalls == 2
\* the number of rows of contacts.csv
MaxContacts == 2
\* the number of threads that are inside generate_email_content at the same time
MaxCallers == 2
\* the number of authenticate calls one process makes
MaxAuths == 2

Seconds(n) == n * TicksPerSecond

(***************************************************************************)
(* Strings.                                                                *)
(***************************************************************************)
\* the one non-ASCII character of the alphabet (c with cedilla, U+00E7, as in
\* the recipient "Mr. Francois Chollet" of tests/test_llm_quality.py)
NonAscii == "U+00E7"

RECURSIVE Concat(_)
\* the concatenation of a sequence of strings
Concat(ss) == IF ss = <<>> THEN <<>> ELSE Head(ss) \o Concat(Tail(ss))

\* Python's  sub in s
Contains(s, sub) ==
    \E i \in 0..(Len(s) - Len(sub)) : SubSeq(s, i + 1, i + Len(sub)) = sub

\* Python's  not s  for a str or None: None is modelled as the empty sequence
Falsy(s) == Len(s) = 0

(***************************************************************************)
(* json.dumps, restricted to a dict of str -> str given as a sequence of   *)
(* <<key, value>> pairs (default separators, ensure_ascii=True).           *)
(***************************************************************************)
json_escape_char(c) ==
    CASE c = "\"" -> <<"\\", "\"">>
      [] c = "\\" -> <<"\\", "\\">>
      [] c = "\n" -> <<"\\", "n">>
      [] c = "\t" -> <<"\\", "t">>
      [] c = "\r" -> <<"\\", "r">>
      [] c = NonAscii -> <<"\\", "u", "0", "0", "e", "7">>
      [] OTHER -> <<c>>

json_dumps_str(s) ==
    <<"\"">> \o Concat([i \in 1..Len(s) |-> json_escape_char(s[i])]) \o <<"\"">>

json_dumps_item(kv) == json_dumps_str(kv[1]) \o <<":", " ">> \o json_dumps_str(kv[2])

RECURSIVE json_dumps_items(_)
json_dumps_items(kvs) ==
    IF kvs = <<>> THEN <<>>
    ELSE IF Len(kvs) = 1 THEN json_dumps_item(kvs[1])
    ELSE json_dumps_item(kvs[1]) \o <<",", " ">> \o json_dumps_items(Tail(kvs))

json_dumps(kvs) == <<"{">> \o json_dumps_items(kvs) \o <<"}">>

(***************************************************************************)
(* json.loads, restricted to what decides the shape of a payload: the      *)
(* result is [ok, obj]; ok is TRUE iff the text decodes to an object whose *)
(* values are all strings, and obj is then that object (key -> value).     *)
(***************************************************************************)
JsonWhitespace == {" ", "\n", "\t", "\r"}
JsonControl == {"\n", "\t", "\r"}
JsonFail == [ok |-> FALSE, val |-> <<>>, next |-> 0]
EmptyObj == [k \in {} |-> <<>>]

RECURSIVE skip_ws(_, _)
skip_ws(s, i) ==
    IF i <= Len(s) /\ s[i] \in JsonWhitespace THEN skip_ws(s, i + 1) ELSE i

RECURSIVE scan_string(_, _, _)
\* scans the characters of a JSON string from position i (after the opening quote)
scan_string(s, i, acc) ==
    IF i > Len(s) THEN JsonFail
    ELSE IF s[i] = "\"" THEN [ok |-> TRUE, val |-> acc, next |-> i + 1]
    ELSE IF s[i] \in JsonControl THEN JsonFail
    ELSE IF s[i] = "\\" THEN
        IF i + 1 > Len(s) THEN JsonFail
        ELSE CASE s[i + 1] = "\"" -> scan_string(s, i + 2, Append(acc, "\""))
               [] s[i + 1] = "\\" -> scan_string(s, i + 2, Append(acc, "\\"))
               [] s[i + 1] = "/" -> scan_string(s, i + 2, Append(acc, "/"))
               [] s[i + 1] = "n" -> scan_string(s, i + 2, Append(acc, "\n"))
               [] s[i + 1] = "t" -> scan_string(s, i + 2, Append(acc, "\t"))
               [] s[i + 1] = "r" -> scan_string(s, i + 2, Append(acc, "\r"))
               [] s[i + 1] = "u" ->
                    IF i + 5 <= Len(s) /\ SubSeq(s, i + 2, i + 5) = <<"0", "0", "e", "7">>
                    THEN scan_string(s, i + 6, Append(acc, NonAscii))
                    ELSE JsonFail
               [] OTHER -> JsonFail
    ELSE scan_string(s, i + 1, Append(acc, s[i]))

parse_string(s, i) ==
    IF i <= Len(s) /\ s[i] = "\"" THEN scan_string(s, i + 1, <<>>) ELSE JsonFail

RECURSIVE parse_members(_, _, _)
\* parses  "key" : "value"  ( , "key" : "value" )* }  from position i
parse_members(s, i, obj) ==
    LET k == parse_string(s, skip_ws(s, i))
        c == IF k.ok THEN skip_ws(s, k.next) ELSE 0
        v == IF k.ok /\ c <= Len(s) /\ s[c] = ":"
             THEN parse_string(s, skip_ws(s, c + 1)) ELSE JsonFail
        e == IF v.ok THEN skip_ws(s, v.next) ELSE 0
        \* a later duplicate key overwrites an earlier one, as in a Python dict
        obj2 == [x \in DOMAIN obj \cup {k.val} |-> IF x = k.val THEN v.val ELSE obj[x]]
    IN  IF ~v.ok \/ e > Len(s) THEN [ok |-> FALSE, obj |-> EmptyObj, next |-> 0]
        ELSE IF s[e] = "}" THEN [ok |-> TRUE, obj |-> obj2, next |-> e + 1]
        ELSE IF s[e] = "," THEN parse_members(s, e + 1, obj2)
        ELSE [ok |-> FALSE, obj |-> EmptyObj, next |-> 0]

json_loads(s) ==
    LET i == skip_ws(s, 1)
        j == IF i <= Len(s) /\ s[i] = "{" THEN skip_ws(s, i + 1) ELSE 0
        r == IF j = 0 \/ j > Len(s) THEN [ok |-> FALSE, obj |-> EmptyObj, next |-> 0]
             ELSE IF s[j] = "}" THEN [ok |-> TRUE, obj |-> EmptyObj, next |-> j + 1]
             ELSE parse_members(s, j, EmptyObj)
    IN  IF r.ok /\ skip_ws(s, r.next) = Len(s) + 1
        THEN [ok |-> TRUE, obj |-> r.obj]
        ELSE [ok |-> FALSE, obj |-> EmptyObj]

(***************************************************************************)
(* Program constants and configuration.                                    *)
(***************************************************************************)
\* llm_generator.py line 38
QUOTA_RESET_SECONDS == 60
\* llm_generator.py line 92
max_cycles == 3
\* llm_generator.py line 179: the pause between two passes, in seconds
PauseSeconds == 3

\* config.LLM_API["model"] as shipped (config.py line 55)
ModelNames == <<"gemini-2.5-flash", "gemini-2.5-flash-lite", "gemini-2.0-flash">>

\* the values of config.LLM_API["model"] considered: every prefix of the shipped
\* list (the empty list included), and a single model name given as a str
ConfigModels ==
    {[is_str |-> FALSE, str |-> "", list |-> SubSeq(ModelNames, 1, k)] : k \in 0..Len(ModelNames)}
    \cup {[is_str |-> TRUE, str |-> ModelNames[1], list |-> <<>>]}

\* config.SENDER_INFO['name'] (config.py line 62), shortened
SENDER_NAME == <<"S", "a", "m">>

\* the (recipient_name, context) pairs callers pass: a plain pair, and a pair
\* whose characters json.dumps has to escape
Requests ==
    { [recipient_name |-> <<"A", "l">>, context |-> <<"h", "i">>],
      [recipient_name |-> <<"O", "\"", NonAscii>>, context |-> <<"a", "\\", "\n", "b">>] }

\* what one model.generate_content call can answer: the text of the response
\* (the empty text stands for a missing response or a missing .text too) ...
ResponseTexts ==
    { <<"{", "\"", "s", "u", "b", "j", "e", "c", "t", "\"", ":", "\"", "S", "\"", ",", "\"", "b", "o", "d", "y", "\"", ":", "\"", "B", "\"", "}">>,
      <<"S", "u", "r", "e", "!">>,
      <<" ">>,
      <<>> }

\* ... or the message of the exception it raises
ErrorMessages ==
    { <<"4", "2", "9", " ", "T", "o", "o", " ", "M", "a", "n", "y">>,
      <<"R", "e", "s", "o", "u", "r", "c", "e", "E", "x", "h", "a", "u", "s", "t", "e", "d">>,
      <<"Q", "u", "o", "t", "a", " ", "e", "x", "c", "e", "e", "d", "e", "d">>,
      <<"q", "u", "o", "t", "a">>,
      <<"5", "0", "0">> }

\* the messages with which genai.GenerativeModel(model_name) raises
InitErrorMessages ==
    { <<"4", "2", "9">>, <<"b", "a", "d">> }

\* the message of the ValueError of line 135
EmptyResponseMessage == <<"E", "m", "p", "t", "y", " ", "r", "e", "s", "p", "o", "n", "s", "e", " ", "f", "r", "o", "m", " ", "L", "L", "M">>

\* how long one model.generate_content call takes, in ticks
CallDurations == {1}

\* how long the process idles between two calls, in ticks
IdleDelays == {Seconds(35)}

(***************************************************************************)
(* State.                                                                  *)
(***************************************************************************)
VARIABLES
    genai,                   \* TRUE iff google.generativeai was imported (FALSE: genai is None)
    config_model,            \* config.LLM_API["model"]
    _model_quota_timestamps, \* the process-wide map model name -> time of its last quota failure
    now,                     \* time.time(), in ticks
    pc,                      \* "idle": no call running; "loop": inside the cycle loop
    recipient_name,          \* arguments of the running (or last) call
    context,
    model_list,              \* locals of generate_email_content
    cycle,
    after_wait,              \* TRUE iff the pass in progress began after the cooldown wait of lines 165-168
    model_index,             \* 1-based position of the inner for loop
    models_tried_this_cycle,
    models_in_cooldown,
    current_time,            \* <<>> while the local is unbound, <<t>> once assigned
    result,                  \* how the running (or last) call ended
    attempts,                \* the attempts of this call, in order: the model handed to
                             \* genai.GenerativeModel and how the attempt ended
    sleeps,                  \* the arguments of the time.sleep calls of this call, in seconds
    ev,                      \* the last step taken
    calls,                   \* the number of calls started so far
    prev                     \* the arguments and the end of the call before this one, kept in
                             \* the processes that can only produce the fallback content

\* main.py: the state of one run of main
VARIABLES
    stop_on_error,           \* the argument of main
    gmail_service,           \* TRUE iff gmail_api.get_gmail_service() returned a service (FALSE: None)
    contacts_file,           \* contacts.csv in the working directory: missing, or its rows
    contacts,                \* the list get_contacts returned
    main_pc,                 \* "off": main is not running; "init": main was called;
                             \* "contact": at line 87 for contacts[contact_index];
                             \* "generated": content_json is bound (line 101);
                             \* "confirm": the draft is shown, input() is waiting (line 140);
                             \* "done": main returned; "raised": an exception left main
    contact_index,           \* 1-based position of the for loop of line 86
    main_exc,                \* the exception that left main
    draft,                   \* the locals subject and body of the contact in hand (lines 125-126)
    processed,               \* the positions of the contacts whose loop body was entered, in order
    failed,                  \* the positions of the contacts whose processing hit an error
    prompts,                 \* the confirmation prompts answered: position and the line typed
    sent                     \* the messages handed to gmail_api.send_message, with the position

\* two or more threads inside generate_email_content: where each one stands in the
\* inner loop of lines 102-152
VARIABLES
    callers                  \* thread -> its position (pc), its model_index and its current_time

\* tests/test_quota_optimization.py line 27 sets this attribute on the module
VARIABLES
    _quota_exhausted         \* TRUE iff llm_generator._quota_exhausted was set to True

\* src/src/server/linkedin_api.py: authenticate and the callback handler
VARIABLES
    CLIENT_ID,               \* the module constant of line 33
    CLIENT_SECRET,           \* the module constant of line 34
    token_file,              \* TOKEN_FILE (line 38): missing, or the JSON object it holds
    OAuthCallbackHandler,    \* the class attributes authorization_code, state and error (lines 53-55)
    state,                   \* the local state of authenticate (line 260)
    auth_pc,                 \* "off": linkedin_api is not in use; "idle": authenticate is not running;
                             \* "waiting": inside server.handle_request() (line 289);
                             \* "handled": handle_request returned, line 292 is next
    auth_result,             \* what the last authenticate call returned, and by which path
    callback,                \* the request handle_request served in this call, if any
    exchanged,               \* the codes this call posted to the token endpoint (line 209), in order
    saved,                   \* TRUE iff this call wrote TOKEN_FILE (line 162)
    auths                    \* the number of authenticate calls started

auth_vars == <<CLIENT_ID, CLIENT_SECRET, token_file, OAuthCallbackHandler, state, auth_pc,
               auth_result, callback, exchanged, saved, auths>>

main_vars == <<stop_on_error, gmail_service, contacts_file, contacts, main_pc, contact_index,
               main_exc, draft, processed, failed, prompts, sent>>

vars == <<genai, config_model, _model_quota_timestamps, now, pc, recipient_name, context,
          model_list, cycle, after_wait, model_index, models_tried_this_cycle, models_in_cooldown,
          current_time, result, attempts, sleeps, ev, calls, prev, main_vars, callers,
          _quota_exhausted, auth_vars>>

config == <<genai, config_model>>
locals == <<model_list, cycle, after_wait, model_index, models_tried_this_cycle, models_in_cooldown,
            current_time>>

Event(kind, model, msg, dur) == [kind |-> kind, model |-> model, msg |-> msg, dur |-> dur]

\* how a call ended: exit is "success" at the return of line 138 and "fallback"
\* at the returns of lines 79 and 187
NoResult == [status |-> "none", exit |-> "", text |-> <<>>, exc |-> ""]
Running  == [status |-> "running", exit |-> "", text |-> <<>>, exc |-> ""]
Returned(text, exit) == [status |-> "returned", exit |-> exit, text |-> text, exc |-> ""]
Raised(exc) == [status |-> "raised", exit |-> "", text |-> <<>>, exc |-> exc]

\* no call before this one
NoCall == [recipient_name |-> <<>>, context |-> <<>>, result |-> NoResult]

\* the messages of ErrorMessages that report a quota failure of the backend
QuotaMessages ==
    { <<"4", "2", "9", " ", "T", "o", "o", " ", "M", "a", "n", "y">>,
      <<"R", "e", "s", "o", "u", "r", "c", "e", "E", "x", "h", "a", "u", "s", "t", "e", "d">>,
      <<"Q", "u", "o", "t", "a", " ", "e", "x", "c", "e", "e", "d", "e", "d">> }

\* one attempt: outcome is "success", "quota" (generate_content raised with a
\* message of QuotaMessages) or "failure" (any other end)
Attempt(model, outcome) == [model |-> model, outcome |-> outcome]

\* the models of the attempts, in order
Invoked == [i \in DOMAIN attempts |-> attempts[i].model]

\* subject and body are not bound
NoDraft == [subject |-> <<>>, body |-> <<>>]

\* contacts.csv does not exist
NoFile == [exists |-> FALSE, rows |-> <<>>]

\* no thread besides the one of pc is inside generate_email_content
NoCallers == <<>>

\* Python's None where a string is expected
None == "None"

\* a JSON object of the token endpoint or of TOKEN_FILE: its keys and the value
\* under "access_token" (None when the key is missing)
TokenData(keys, access_token) == [exists |-> TRUE, keys |-> keys, access_token |-> access_token]
\* no object: _load_token or _exchange_code_for_token returned None
NoTokenData == [exists |-> FALSE, keys |-> {}, access_token |-> None]

\* the query of a callback request as parse_qs gives it (line 64): the first value
\* of each parameter, None for a parameter that is missing or blank
Query(code, st, error, error_description) ==
    [received |-> TRUE, code |-> code, state |-> st, error |-> error,
     error_description |-> error_description]
\* handle_request served no request
NoRequest ==
    [received |-> FALSE, code |-> None, state |-> None, error |-> None, error_description |-> None]

\* the return value of authenticate and the path that produced it
AuthResult(value, path) == [value |-> value, path |-> path]
NoAuthResult == AuthResult(None, "none")

\* lines 263-265 and 53-55: the attributes of the handler class when nothing is recorded
HandlerReset == [authorization_code |-> None, state |-> None, error |-> None]

\* linkedin_api is not in use
AuthOff ==
    /\ CLIENT_ID = ""
    /\ CLIENT_SECRET = ""
    /\ token_file = NoTokenData
    /\ OAuthCallbackHandler = HandlerReset
    /\ state = None
    /\ auth_pc = "off"
    /\ auth_result = NoAuthResult
    /\ callback = NoRequest
    /\ exchanged = <<>>
    /\ saved = FALSE
    /\ auths = 0

\* main is not running: generate_email_content is called directly, as the tests do
MainOff ==
    /\ stop_on_error = TRUE
    /\ gmail_service = FALSE
    /\ contacts_file = NoFile
    /\ contacts = <<>>
    /\ main_pc = "off"
    /\ contact_index = 0
    /\ main_exc = ""
    /\ draft = NoDraft
    /\ processed = <<>>
    /\ failed = {}
    /\ prompts = <<>>
    /\ sent = <<>>

Init ==
    /\ genai \in BOOLEAN
    /\ config_model \in ConfigModels
    /\ genai = FALSE => config_model.list = ModelNames
    /\ _model_quota_timestamps = [m \in {} |-> 0]
    /\ now = 0
    /\ pc = "idle"
    /\ recipient_name = <<>>
    /\ context = <<>>
    /\ model_list = <<>>
    /\ cycle = 0
    /\ after_wait = FALSE
    /\ model_index = 0
    /\ models_tried_this_cycle = 0
    /\ models_in_cooldown = 0
    /\ current_time = <<>>
    /\ result = NoResult
    /\ attempts = <<>>
    /\ sleeps = <<>>
    /\ ev = Event("init", "", <<>>, 0)
    /\ calls = 0
    /\ prev = NoCall
    /\ MainOff
    /\ callers = NoCallers
    /\ _quota_exhausted = FALSE
    /\ AuthOff

(***************************************************************************)
(* Pure parts of generate_email_content.                                   *)
(***************************************************************************)
\* lines 75-79 and 183-187: the fallback payload
fallback_subject(rn) == <<"H", "e", "l", "l", "o", " ">> \o rn

\* mutant: the body is built without the context
fallback_body_NoContext(rn, cx) ==
    <<"D", "e", "a", "r", " ">> \o rn \o <<",", "\n", "\n">>
        \o <<"\n", "\n", "B", "e", "s", "t", " ", "r", "e", "g", "a", "r", "d", "s", ",", "\n">> \o SENDER_NAME

fallback_body(rn, cx) ==
    <<"D", "e", "a", "r", " ">> \o rn \o <<",", "\n", "\n">> \o cx
        \o <<"\n", "\n", "B", "e", "s", "t", " ", "r", "e", "g", "a", "r", "d", "s", ",", "\n">> \o SENDER_NAME

KeySubject == <<"s", "u", "b", "j", "e", "c", "t">>
KeyBody == <<"b", "o", "d", "y">>

fallback(rn, cx) ==
    json_dumps(<< <<KeySubject, fallback_subject(rn)>>, <<KeyBody, fallback_body(rn, cx)>> >>)

\* mutant: the payload of lines 75-79 greets with another subject
fallback_no_library_OtherSubject(rn, cx) ==
    json_dumps(<< <<KeySubject, <<"H", "i", " ">> \o rn>>, <<KeyBody, fallback_body(rn, cx)>> >>)

\* lines 75-79: the payload built when genai is None, key by key as the
\* dictionary literal lists them
fallback_no_library(rn, cx) ==
    json_dumps(<< <<KeySubject, <<"H", "e", "l", "l", "o", " ">> \o rn>>,
                  <<KeyBody, <<"D", "e", "a", "r", " ">> \o rn \o <<",", "\n", "\n">> \o cx
                      \o <<"\n", "\n", "B", "e", "s", "t", " ", "r", "e", "g", "a", "r", "d", "s", ",", "\n">>
                      \o SENDER_NAME>> >>)

\* mutant: a model given as a str is not wrapped into a list
normalize_model_list_NoWrap(cfg) == cfg.list

\* lines 82-84
normalize_model_list(cfg) == IF cfg.is_str THEN <<cfg.str>> ELSE cfg.list

\* mutant: an entry aged exactly the cooldown window still counts as cooling
in_cooldown_Inclusive(map, model_name, t) ==
    /\ model_name \in DOMAIN map
    /\ t - map[model_name] <= Seconds(QUOTA_RESET_SECONDS)

\* mutant: no entry ever keeps its model out of an attempt
in_cooldown_Never(map, model_name, t) == FALSE

\* mutant: an entry never expires
in_cooldown_NoExpiry(map, model_name, t) == model_name \in DOMAIN map

\* lines 105-107: the model has an entry younger than the cooldown window
in_cooldown(map, model_name, t) ==
    /\ model_name \in DOMAIN map
    /\ t - map[model_name] < Seconds(QUOTA_RESET_SECONDS)

\* line 116: del _model_quota_timestamps[model_name]
del_entry(map, model_name) == [k \in DOMAIN map \ {model_name} |-> map[k]]

\* mutant: a stale entry is kept
evict_expired_Keeps(map, model_name, t) == map

\* lines 105-116 on the branch that goes on to line 118: a stale entry is evicted
evict_expired(map, model_name, t) ==
    IF model_name \in DOMAIN map /\ ~in_cooldown(map, model_name, t)
    THEN del_entry(map, model_name) ELSE map

\* mutant: the quota hit is not recorded
record_quota_hit_Dropped(map, model_name, t) == map

\* line 144: _model_quota_timestamps[model_name] = current_time
record_quota_hit(map, model_name, t) ==
    [k \in DOMAIN map \cup {model_name} |-> IF k = model_name THEN t ELSE map[k]]

\* mutant: the marker "Quota" is matched in lower case too
is_quota_error_AnyCase(error_str) ==
    \/ Contains(error_str, <<"4", "2", "9">>)
    \/ Contains(error_str, <<"R", "e", "s", "o", "u", "r", "c", "e", "E", "x", "h", "a", "u", "s", "t", "e", "d">>)
    \/ Contains(error_str, <<"Q", "u", "o", "t", "a">>)
    \/ Contains(error_str, <<"q", "u", "o", "t", "a">>)

\* line 142
is_quota_error(error_str) ==
    \/ Contains(error_str, <<"4", "2", "9">>)
    \/ Contains(error_str, <<"R", "e", "s", "o", "u", "r", "c", "e", "E", "x", "h", "a", "u", "s", "t", "e", "d">>)
    \/ Contains(error_str, <<"Q", "u", "o", "t", "a">>)

\* line 134: the response is missing or has no text
is_empty_response(text) == Falsy(text)

SetMin(S) == CHOOSE x \in S : \A y \in S : x <= y

\* lines 157-161, in ticks
min_wait(map, t) ==
    SetMin({Seconds(QUOTA_RESET_SECONDS)}
           \cup {Seconds(QUOTA_RESET_SECONDS) - (t - map[m]) : m \in DOMAIN map})

\* Python's int() of a duration of x ticks: whole seconds, truncated towards zero
int_seconds(x) == IF x >= 0 THEN x \div TicksPerSecond ELSE -((-x) \div TicksPerSecond)

\* mutant: the wait is a whole window for every entry of the map
wait_time_WindowPerEntry(map, t) == QUOTA_RESET_SECONDS * Cardinality(DOMAIN map) + 1

\* mutant: the wait is the fixed pause, whatever the cooldowns are
wait_time_FixedPause(map, t) == PauseSeconds

\* mutant: the wait is int(min_wait), without the extra second
wait_time_NoExtraSecond(map, t) == int_seconds(min_wait(map, t))

\* line 165, in seconds
wait_time(map, t) == int_seconds(min_wait(map, t)) + 1

\* mutant: one skipped model is enough to take the cooldown branch
all_in_cooldown_AnySkipped(tried, cooldown, list) == cooldown > 0

\* line 155
all_in_cooldown(tried, cooldown, list) == tried = 0 /\ cooldown = Len(list)

(***************************************************************************)
(* Steps of generate_email_content.                                        *)
(***************************************************************************)
\* the frame of the call is gone once it has returned or raised
FrameDropped ==
    /\ model_list' = <<>>
    /\ cycle' = 0
    /\ after_wait' = FALSE
    /\ model_index' = 0
    /\ models_tried_this_cycle' = 0
    /\ models_in_cooldown' = 0
    /\ current_time' = <<>>

\* return <text> / raise <exc>: the call is over
Return(text, exit) == pc' = "idle" /\ result' = Returned(text, exit) /\ FrameDropped
Raise(exc) == pc' = "idle" /\ result' = Raised(exc) /\ FrameDropped

\* lines 94-99 for the next value of cycle: a new pass begins
BeginPass(c, w) ==
    /\ pc' = "loop"
    /\ cycle' = c
    /\ after_wait' = w
    /\ model_index' = 1
    /\ models_tried_this_cycle' = 0
    /\ models_in_cooldown' = 0

\* time.sleep(seconds) with seconds >= 0
Sleep(seconds) ==
    /\ now' = now + Seconds(seconds)
    /\ sleeps' = Append(sleeps, seconds)

\* what prev holds once the next call starts
PrevCall ==
    IF genai = FALSE \/ normalize_model_list(config_model) = <<>>
    THEN [recipient_name |-> recipient_name, context |-> context, result |-> result]
    ELSE NoCall

\* the calls followed: at most MaxCalls per process, started while the clock is
\* at most MaxStartSeconds, the later ones after a call that did not sleep
CanStart ==
    /\ pc = "idle"
    /\ calls < MaxCalls
    /\ now <= Seconds(MaxStartSeconds)
    /\ sleeps = <<>>

\* mutant: the call without the library forgets the recorded quota failures
GenerateWithoutLibrary_ClearsMap(rq) ==
    /\ pc = "idle"
    /\ CanStart
    /\ calls' = calls + 1
    /\ genai = FALSE
    /\ recipient_name' = rq.recipient_name
    /\ context' = rq.context
    /\ attempts' = <<>>
    /\ prev' = PrevCall
    /\ sleeps' = <<>>
    /\ Return(fallback_no_library(rq.recipient_name, rq.context), "fallback")
    /\ ev' = Event("no_library", "", <<>>, 0)
    /\ _model_quota_timestamps' = [m \in {} |-> 0]
    /\ UNCHANGED <<auth_vars, _quota_exhausted, callers, main_vars, config, now>>

\* lines 73-79: genai is None, the fallback is returned at once
GenerateWithoutLibrary(rq) ==
    /\ pc = "idle"
    /\ CanStart
    /\ calls' = calls + 1
    /\ genai = FALSE
    /\ recipient_name' = rq.recipient_name
    /\ context' = rq.context
    /\ attempts' = <<>>
    /\ prev' = PrevCall
    /\ sleeps' = <<>>
    /\ Return(fallback_no_library(rq.recipient_name, rq.context), "fallback")
    /\ ev' = Event("no_library", "", <<>>, 0)
    /\ UNCHANGED <<auth_vars, _quota_exhausted, callers, main_vars, config, _model_quota_timestamps, now>>

\* mutant: every call starts with an empty quota map
GenerateStart_FreshMap(rq) ==
    /\ pc = "idle"
    /\ CanStart
    /\ calls' = calls + 1
    /\ genai = TRUE
    /\ recipient_name' = rq.recipient_name
    /\ context' = rq.context
    /\ attempts' = <<>>
    /\ prev' = PrevCall
    /\ sleeps' = <<>>
    /\ result' = Running
    /\ model_list' = normalize_model_list(config_model)
    /\ current_time' = <<>>
    /\ BeginPass(0, FALSE)
    /\ ev' = Event("start", "", <<>>, 0)
    /\ _model_quota_timestamps' = [m \in {} |-> 0]
    /\ UNCHANGED <<auth_vars, _quota_exhausted, callers, main_vars, config, now>>

\* lines 59-99: the call reaches the cycle loop
GenerateStart(rq) ==
    /\ pc = "idle"
    /\ CanStart
    /\ calls' = calls + 1
    /\ genai = TRUE
    /\ recipient_name' = rq.recipient_name
    /\ context' = rq.context
    /\ attempts' = <<>>
    /\ prev' = PrevCall
    /\ sleeps' = <<>>
    /\ result' = Running
    /\ model_list' = normalize_model_list(config_model)
    /\ current_time' = <<>>
    /\ BeginPass(0, FALSE)
    /\ ev' = Event("start", "", <<>>, 0)
    /\ UNCHANGED <<auth_vars, _quota_exhausted, callers, main_vars, config, _model_quota_timestamps, now>>

InLoopBody == pc = "loop" /\ model_index <= Len(model_list)

\* lines 104-112: the model is in cooldown and is skipped
SkipInCooldown ==
    /\ InLoopBody
    /\ LET model_name == model_list[model_index] IN
        /\ in_cooldown(_model_quota_timestamps, model_name, now)
        /\ current_time' = <<now>>
        /\ models_in_cooldown' = models_in_cooldown + 1
        /\ model_index' = model_index + 1
        /\ ev' = Event("skip", model_name, <<>>, 0)
    /\ UNCHANGED <<auth_vars, _quota_exhausted, callers, main_vars, calls, prev, config, _model_quota_timestamps, now, pc, recipient_name, context,
                   model_list, cycle, after_wait, models_tried_this_cycle, result, attempts, sleeps>>

\* lines 104-126: the model is available, genai.GenerativeModel(model_name) raises
ModelInitFails(msg) ==
    /\ InLoopBody
    /\ LET model_name == model_list[model_index] IN
        /\ ~in_cooldown(_model_quota_timestamps, model_name, now)
        /\ current_time' = <<now>>
        /\ _model_quota_timestamps' = evict_expired(_model_quota_timestamps, model_name, now)
        /\ models_tried_this_cycle' = models_tried_this_cycle + 1
        /\ attempts' = Append(attempts, Attempt(model_name, "failure"))
        /\ model_index' = model_index + 1
        /\ ev' = Event("init_error", model_name, msg, 0)
    /\ UNCHANGED <<auth_vars, _quota_exhausted, callers, main_vars, calls, prev, config, now, pc, recipient_name, context, model_list, cycle, after_wait,
                   models_in_cooldown, result, sleeps>>

\* mutant: after a successful attempt the loop goes on with the next model
GenerateSucceeds_NoReturn(text, d) ==
    /\ InLoopBody
    /\ LET model_name == model_list[model_index] IN
        /\ ~in_cooldown(_model_quota_timestamps, model_name, now)
        /\ ~is_empty_response(text)
        /\ current_time' = <<now>>
        /\ _model_quota_timestamps' = evict_expired(_model_quota_timestamps, model_name, now)
        /\ models_tried_this_cycle' = models_tried_this_cycle + 1
        /\ attempts' = Append(attempts, Attempt(model_name, "success"))
        /\ model_index' = model_index + 1
        /\ now' = now + d
        /\ ev' = Event("success", model_name, text, d)
    /\ UNCHANGED <<auth_vars, _quota_exhausted, callers, main_vars, calls, prev, config, pc, recipient_name, context, model_list, cycle, after_wait,
                   models_in_cooldown, result, sleeps>>

\* lines 104-138: the model is available and answers with a text: the text is returned
GenerateSucceeds(text, d) ==
    /\ InLoopBody
    /\ LET model_name == model_list[model_index] IN
        /\ ~in_cooldown(_model_quota_timestamps, model_name, now)
        /\ ~is_empty_response(text)
        /\ _model_quota_timestamps' = evict_expired(_model_quota_timestamps, model_name, now)
        /\ attempts' = Append(attempts, Attempt(model_name, "success"))
        /\ now' = now + d
        /\ Return(text, "success")
        /\ ev' = Event("success", model_name, text, d)
    /\ UNCHANGED <<auth_vars, _quota_exhausted, callers, main_vars, calls, prev, config, recipient_name, context, sleeps>>

\* mutant: no exception is classified as a quota failure
AfterException_NeverRecords(map, model_name, t, error_str) == map

\* mutant: every caught exception is recorded as a quota failure
AfterException_AlwaysRecords(map, model_name, t, error_str) == record_quota_hit(map, model_name, t)

\* lines 139-152, after the exception with message error_str was caught
AfterException(map, model_name, t, error_str) ==
    IF is_quota_error(error_str) THEN record_quota_hit(map, model_name, t) ELSE map

\* mutant: after a failed attempt the same model is tried again
AttemptFails_Retries(model_name, error_str, d, kind) ==
    /\ InLoopBody
    /\ model_name = model_list[model_index]
    /\ ~in_cooldown(_model_quota_timestamps, model_name, now)
    /\ current_time' = <<now>>
    /\ _model_quota_timestamps' =
          AfterException(evict_expired(_model_quota_timestamps, model_name, now),
                         model_name, now, error_str)
    /\ models_tried_this_cycle' = models_tried_this_cycle + 1
    /\ attempts' = Append(attempts, Attempt(model_name, IF error_str \in QuotaMessages THEN "quota" ELSE "failure"))
    /\ now' = now + d
    /\ ev' = Event(kind, model_name, error_str, d)
    /\ UNCHANGED <<auth_vars, _quota_exhausted, callers, main_vars, calls, prev, config, pc, recipient_name, context, model_list, cycle, after_wait,
                   model_index, models_in_cooldown, result, sleeps>>

\* lines 104-152: the model is available and the attempt fails, either with an
\* exception of generate_content or with the ValueError of line 135
AttemptFails(model_name, error_str, d, kind) ==
    /\ InLoopBody
    /\ model_name = model_list[model_index]
    /\ ~in_cooldown(_model_quota_timestamps, model_name, now)
    /\ current_time' = <<now>>
    /\ _model_quota_timestamps' =
          AfterException(evict_expired(_model_quota_timestamps, model_name, now),
                         model_name, now, error_str)
    /\ models_tried_this_cycle' = models_tried_this_cycle + 1
    /\ attempts' = Append(attempts, Attempt(model_name, IF error_str \in QuotaMessages THEN "quota" ELSE "failure"))
    /\ model_index' = model_index + 1
    /\ now' = now + d
    /\ ev' = Event(kind, model_name, error_str, d)
    /\ UNCHANGED <<auth_vars, _quota_exhausted, callers, main_vars, calls, prev, config, pc, recipient_name, context, model_list, cycle, after_wait,
                   models_in_cooldown, result, sleeps>>

GenerateRaises(msg, d) ==
    \E model_name \in {model_list[i] : i \in {model_index} \cap DOMAIN model_list} :
        AttemptFails(model_name, msg, d, "gen_error")

GenerateEmpty(text, d) ==
    /\ is_empty_response(text)
    /\ \E model_name \in {model_list[i] : i \in {model_index} \cap DOMAIN model_list} :
        AttemptFails(model_name, EmptyResponseMessage, d, "empty")

PassOver == pc = "loop" /\ model_index > Len(model_list)

AllInCooldown == all_in_cooldown(models_tried_this_cycle, models_in_cooldown, model_list)

\* line 159 reads current_time, which no statement has bound yet
ReadsUnbound == DOMAIN _model_quota_timestamps # {} /\ current_time = <<>>

\* the value line 159 reads (any value when the loop of line 158 has no turn)
CurrentTime == IF current_time = <<>> THEN 0 ELSE current_time[1]

\* lines 155-159: every model was skipped, and line 159 raises UnboundLocalError
AllInCooldownUnbound ==
    /\ PassOver
    /\ AllInCooldown
    /\ ReadsUnbound
    /\ Raise("UnboundLocalError")
    /\ ev' = Event("raise", "", <<>>, 0)
    /\ UNCHANGED <<auth_vars, _quota_exhausted, callers, main_vars, calls, prev, config, _model_quota_timestamps, now, recipient_name, context,
                   attempts, sleeps>>

\* lines 155-168: every model was skipped, wait for the first cooldown to end
AllInCooldownWait ==
    /\ PassOver
    /\ AllInCooldown
    /\ ~ReadsUnbound
    /\ cycle < max_cycles - 1
    /\ LET w == wait_time(_model_quota_timestamps, CurrentTime) IN
        /\ w >= 0
        /\ Sleep(w)
        /\ ev' = Event("wait", "", <<>>, w)
    /\ BeginPass(cycle + 1, TRUE)
    /\ UNCHANGED <<auth_vars, _quota_exhausted, callers, main_vars, calls, prev, config, _model_quota_timestamps, recipient_name, context, model_list,
                   current_time, result, attempts>>

\* lines 155-167: time.sleep raises ValueError on a negative argument
AllInCooldownSleepRaises ==
    /\ PassOver
    /\ AllInCooldown
    /\ ~ReadsUnbound
    /\ cycle < max_cycles - 1
    /\ wait_time(_model_quota_timestamps, CurrentTime) < 0
    /\ Raise("ValueError")
    /\ ev' = Event("raise", "", <<>>, wait_time(_model_quota_timestamps, CurrentTime))
    /\ UNCHANGED <<auth_vars, _quota_exhausted, callers, main_vars, calls, prev, config, _model_quota_timestamps, now, recipient_name, context,
                   attempts, sleeps>>

\* mutant: the final pass sleeps too before the fallback is returned
AllInCooldownFinal_Sleeps ==
    /\ PassOver
    /\ AllInCooldown
    /\ ~ReadsUnbound
    /\ cycle >= max_cycles - 1
    /\ Sleep(PauseSeconds)
    /\ Return(fallback(recipient_name, context), "fallback")
    /\ ev' = Event("fallback", "", <<>>, 0)
    /\ UNCHANGED <<auth_vars, _quota_exhausted, callers, main_vars, calls, prev, config, _model_quota_timestamps, recipient_name, context,
                   attempts>>

\* lines 155-172 and 181-187: every model was skipped on the final pass
AllInCooldownFinal ==
    /\ PassOver
    /\ AllInCooldown
    /\ ~ReadsUnbound
    /\ cycle >= max_cycles - 1
    /\ Return(fallback(recipient_name, context), "fallback")
    /\ ev' = Event("fallback", "", <<>>, 0)
    /\ UNCHANGED <<auth_vars, _quota_exhausted, callers, main_vars, calls, prev, config, _model_quota_timestamps, now, recipient_name, context,
                   attempts, sleeps>>

\* lines 174-179: some model was tried and all failed, pause, then the next pass
PauseBeforeNextCycle ==
    /\ PassOver
    /\ ~AllInCooldown
    /\ cycle < max_cycles - 1
    /\ IF models_tried_this_cycle > 0
       THEN Sleep(PauseSeconds) /\ ev' = Event("pause", "", <<>>, PauseSeconds)
       ELSE UNCHANGED <<now, sleeps>> /\ ev' = Event("next", "", <<>>, 0)
    /\ BeginPass(cycle + 1, FALSE)
    /\ UNCHANGED <<auth_vars, _quota_exhausted, callers, main_vars, calls, prev, config, _model_quota_timestamps, recipient_name, context, model_list,
                   current_time, result, attempts>>

\* lines 174-187: the final pass is over without a success
CyclesExhausted ==
    /\ PassOver
    /\ ~AllInCooldown
    /\ cycle >= max_cycles - 1
    /\ Return(fallback(recipient_name, context), "fallback")
    /\ ev' = Event("fallback", "", <<>>, 0)
    /\ UNCHANGED <<auth_vars, _quota_exhausted, callers, main_vars, calls, prev, config, _model_quota_timestamps, now, recipient_name, context,
                   attempts, sleeps>>

(***************************************************************************)
(* The process around the calls.                                           *)
(***************************************************************************)
\* time passes between two calls
Idle(d) ==
    /\ pc = "idle"
    /\ now + d <= Seconds(MaxStartSeconds)
    /\ now' = now + d
    /\ ev' = Event("idle", "", <<>>, d)
    /\ UNCHANGED <<auth_vars, _quota_exhausted, callers, main_vars, calls, prev, config, _model_quota_timestamps, pc, recipient_name, context, locals,
                   result, attempts, sleeps>>

\* tests/test_model_cycling.py lines 26-35: before its call the test writes three
\* entries into the map, aged 0, 25 and 65 seconds
PrimedMap(t) ==
    [m \in {ModelNames[1], ModelNames[2], ModelNames[3]} |->
        IF m = ModelNames[1] THEN t
        ELSE IF m = ModelNames[2] THEN t - Seconds(25)
        ELSE t - Seconds(65)]

SetQuotaTimestamps ==
    /\ pc = "idle"
    /\ result = NoResult
    /\ now = 0
    /\ _model_quota_timestamps = [m \in {} |-> 0]
    /\ _model_quota_timestamps' = PrimedMap(now)
    /\ ev' = Event("primed", "", <<>>, 0)
    /\ UNCHANGED <<auth_vars, _quota_exhausted, callers, main_vars, calls, prev, config, now, pc, recipient_name, context, locals, result, attempts, sleeps>>

Next ==
    \/ \E rq \in Requests : GenerateWithoutLibrary(rq)
    \/ \E rq \in Requests : GenerateStart(rq)
    \/ SkipInCooldown
    \/ \E msg \in InitErrorMessages : ModelInitFails(msg)
    \/ \E text \in ResponseTexts, d \in CallDurations : GenerateSucceeds(text, d)
    \/ \E msg \in ErrorMessages, d \in CallDurations : GenerateRaises(msg, d)
    \/ \E text \in ResponseTexts, d \in CallDurations : GenerateEmpty(text, d)
    \/ AllInCooldownUnbound
    \/ AllInCooldownWait
    \/ AllInCooldownSleepRaises
    \/ AllInCooldownFinal
    \/ PauseBeforeNextCycle
    \/ CyclesExhausted
    \/ \E d \in IdleDelays : Idle(d)
    \/ SetQuotaTimestamps

Spec == Init /\ [][Next]_vars

(***************************************************************************)
(* main.py: get_contacts and main.  One run of main reads contacts.csv and *)
(* handles the contacts one after the other.  Its call of                  *)
(* generate_email_content is one step here, whose outcome is any of the    *)
(* ends the generator has under Spec: the fallback payload, a non-empty    *)
(* text of a model returned as it is, or one of the two exceptions.        *)
(* A run of main presupposes that main.py was imported: line 14 imports    *)
(* linkedin_api, whose line 33 reads config.LINKEDIN_API, which the        *)
(* shipped config.py (lines 42-46) leaves commented out.                   *)
(***************************************************************************)
\* os.getenv("MESSAGE_CONTEXT") or its default of line 82, shortened
MESSAGE_CONTEXT == <<"h", "i">>

\* the column sets of contacts.csv considered: every column, no "name" column,
\* no "platform" column
Headers ==
    { {"name", "email", "platform", "linkedin_urn"},
      {"email", "platform", "linkedin_urn"},
      {"name", "email", "linkedin_urn"} }

Platforms == {"gmail", "linkedin", "other"}

\* the name of every contact of the file
ContactName == <<"A", "l">>

\* one row as csv.DictReader yields it
Row(header, platform) ==
    [k \in header |->
        CASE k = "name" -> ContactName
          [] k = "platform" -> platform
          [] k = "email" -> "al@example.com"
          [] k = "linkedin_urn" -> "urn:li:person:al"]

\* the states of contacts.csv: missing, or up to MaxContacts rows under one header
ContactFiles ==
    {NoFile} \cup
    {[exists |-> TRUE, rows |-> rows] :
        rows \in UNION {[1..n -> {Row(h, pf) : pf \in Platforms}] : n \in 0..MaxContacts, h \in Headers}}

\* the texts a model can answer that generate_email_content returns as they are
\* (ResponseTexts without the empty one), one with prose around the object and
\* one without the key "body"
MainResponseTexts ==
    (ResponseTexts \ {<<>>}) \cup
    { <<"O", "k", " ", "{", "\"", "s", "u", "b", "j", "e", "c", "t", "\"", ":", "\"", "S", "\"", ",", "\"", "b", "o", "d", "y", "\"", ":", "\"", "B", "\"", "}", ".">>,
      <<"{", "\"", "s", "u", "b", "j", "e", "c", "t", "\"", ":", "\"", "S", "\"", "}">> }

\* the ends of generate_email_content(rn, cx)
GenerateOutcomes(rn, cx) ==
    {Returned(fallback(rn, cx), "fallback")}
    \cup {Returned(text, "success") : text \in MainResponseTexts}
    \cup {Raised("UnboundLocalError"), Raised("ValueError")}

\* the lines the operator types at the prompt of line 140
Answers ==
    { <<"y">>, <<"Y">>, <<" ", "y", " ">>, <<"n">>, <<"y", "e", "s">>, <<>> }

\* lines 38-48: the file is missing, open raises FileNotFoundError and the handler
\* evaluates the unbound name file_file_path (line 47): NameError
get_contacts(file) ==
    IF file.exists
    THEN [raised |-> "", contacts |-> file.rows]
    ELSE [raised |-> "NameError", contacts |-> <<>>]

RECURSIVE lstrip(_)
lstrip(s) == IF s # <<>> /\ Head(s) \in {" ", "\t", "\n", "\r"} THEN lstrip(Tail(s)) ELSE s

RECURSIVE rstrip(_)
rstrip(s) ==
    IF s # <<>> /\ s[Len(s)] \in {" ", "\t", "\n", "\r"} THEN rstrip(SubSeq(s, 1, Len(s) - 1)) ELSE s

\* str.strip()
strip(s) == rstrip(lstrip(s))

\* str.lower(), on the letters of Answers
lower(s) ==
    [i \in DOMAIN s |->
        CASE s[i] = "Y" -> "y"
          [] s[i] = "N" -> "n"
          [] s[i] = "E" -> "e"
          [] s[i] = "S" -> "s"
          [] OTHER -> s[i]]

\* mutant: every line typed confirms
is_confirmed_Always(answer) == TRUE

\* lines 140-141: confirm = input(...).strip().lower(); confirm == 'y'
is_confirmed(answer) == lower(strip(answer)) = <<"y">>

\* str.find and str.rfind of one character, 1-based, 0 for "not found"
find(text, c) ==
    IF \E i \in DOMAIN text : text[i] = c
    THEN CHOOSE i \in DOMAIN text : text[i] = c /\ \A j \in 1..(i - 1) : text[j] # c
    ELSE 0

rfind(text, c) ==
    IF \E i \in DOMAIN text : text[i] = c
    THEN CHOOSE i \in DOMAIN text : text[i] = c /\ \A j \in (i + 1)..Len(text) : text[j] # c
    ELSE 0

\* lines 114-120: the first parse failed, the text between the first "{" and the
\* last "}" is parsed if there are both
parse_between_braces(text, start, end) ==
    json_loads(IF start # 0 /\ end # 0 THEN SubSeq(text, start, end) ELSE <<>>)

\* lines 110-121 once json.loads(text) gave direct
parse_or_extract(direct, text) ==
    IF direct.ok THEN direct ELSE parse_between_braces(text, find(text, "{"), rfind(text, "}"))

\* lines 109-121, for texts that are no JSON value other than an object
parse_json_response(text) == parse_or_extract(json_loads(text), text)

\* lines 125-126 on the parsed content
draft_of(content) ==
    IF content.ok /\ {KeySubject, KeyBody} \subseteq DOMAIN content.obj
    THEN [ok |-> TRUE, subject |-> content.obj[KeySubject], body |-> content.obj[KeyBody]]
    ELSE [ok |-> FALSE, subject |-> <<>>, body |-> <<>>]

\* lines 122-127: the draft, or ok = FALSE when parsing or one of the two
\* subscripts raises
parse_draft(text) == draft_of(parse_json_response(text))

\* the for loop of line 86 goes on with position i of list
ToContact(i, list) ==
    IF i <= Len(list)
    THEN main_pc' = "contact" /\ contact_index' = i
    ELSE main_pc' = "done" /\ contact_index' = contact_index

\* lines 96-99, 129-132 and 168-177: the contact hit an error that main handles:
\* break when stop_on_error, else on to the next contact
ContactFails ==
    /\ failed' = failed \cup {contact_index}
    /\ IF stop_on_error
       THEN main_pc' = "done" /\ contact_index' = contact_index
       ELSE ToContact(contact_index + 1, contacts)

\* what a step of main leaves alone in the generator
generator_frame == <<genai, config_model, _model_quota_timestamps, now, pc, locals, attempts,
                     sleeps, ev, prev, callers, _quota_exhausted, auth_vars>>
call_frame == <<recipient_name, context, result, calls>>

MainInit ==
    /\ genai = TRUE
    /\ config_model = [is_str |-> FALSE, str |-> "", list |-> ModelNames]
    /\ _model_quota_timestamps = [m \in {} |-> 0]
    /\ now = 0
    /\ pc = "idle"
    /\ recipient_name = <<>>
    /\ context = <<>>
    /\ model_list = <<>>
    /\ cycle = 0
    /\ after_wait = FALSE
    /\ model_index = 0
    /\ models_tried_this_cycle = 0
    /\ models_in_cooldown = 0
    /\ current_time = <<>>
    /\ result = NoResult
    /\ attempts = <<>>
    /\ sleeps = <<>>
    /\ ev = Event("init", "", <<>>, 0)
    /\ calls = 0
    /\ prev = NoCall
    /\ callers = NoCallers
    /\ _quota_exhausted = FALSE
    /\ AuthOff
    /\ stop_on_error \in BOOLEAN
    /\ gmail_service \in BOOLEAN
    /\ contacts_file \in ContactFiles
    /\ contacts = <<>>
    /\ main_pc = "init"
    /\ contact_index = 0
    /\ main_exc = ""
    /\ draft = NoDraft
    /\ processed = <<>>
    /\ failed = {}
    /\ prompts = <<>>
    /\ sent = <<>>

\* lines 65-86: the services, the contacts and the context are there, the loop begins
MainStart ==
    /\ main_pc = "init"
    /\ get_contacts(contacts_file).raised = ""
    /\ contacts' = get_contacts(contacts_file).contacts
    /\ ToContact(1, get_contacts(contacts_file).contacts)
    /\ UNCHANGED <<draft, stop_on_error, gmail_service, contacts_file, main_exc, processed, failed,
                   prompts, sent, generator_frame, call_frame>>

\* line 76: get_contacts raises, and nothing in main catches it
MainStartRaises ==
    /\ main_pc = "init"
    /\ get_contacts(contacts_file).raised # ""
    /\ main_pc' = "raised"
    /\ main_exc' = get_contacts(contacts_file).raised
    /\ UNCHANGED <<draft, stop_on_error, gmail_service, contacts_file, contacts, contact_index, processed,
                   failed, prompts, sent, generator_frame, call_frame>>

\* line 87, outside the try block: the row has no "name", KeyError leaves main
ContactWithoutName ==
    /\ main_pc = "contact"
    /\ "name" \notin DOMAIN contacts[contact_index]
    /\ processed' = Append(processed, contact_index)
    /\ failed' = failed \cup {contact_index}
    /\ main_pc' = "raised"
    /\ main_exc' = "KeyError"
    /\ UNCHANGED <<draft, stop_on_error, gmail_service, contacts_file, contacts, contact_index, prompts,
                   sent, generator_frame, call_frame>>

\* the call of line 91 with its arguments
CallsGenerator ==
    /\ main_pc = "contact"
    /\ "name" \in DOMAIN contacts[contact_index]
    /\ processed' = Append(processed, contact_index)
    /\ recipient_name' = contacts[contact_index]["name"]
    /\ context' = MESSAGE_CONTEXT
    /\ calls' = calls + 1

\* lines 87-92: generate_email_content returned a text; a returned text is never
\* empty, so the branch of lines 93-99 is not taken
GenerationReturns(outcome) ==
    /\ CallsGenerator
    /\ outcome \in GenerateOutcomes(contacts[contact_index]["name"], MESSAGE_CONTEXT)
    /\ outcome.status = "returned"
    /\ ~Falsy(outcome.text)
    /\ result' = outcome
    /\ main_pc' = "generated"
    /\ UNCHANGED <<draft, stop_on_error, gmail_service, contacts_file, contacts, contact_index, main_exc,
                   failed, prompts, sent, generator_frame>>

\* lines 87-91 and 168-177: generate_email_content raised, the handler of line 168
\* takes it
GenerationRaises(outcome) ==
    /\ CallsGenerator
    /\ outcome \in GenerateOutcomes(contacts[contact_index]["name"], MESSAGE_CONTEXT)
    /\ outcome.status = "raised"
    /\ result' = outcome
    /\ ContactFails
    /\ UNCHANGED <<draft, stop_on_error, gmail_service, contacts_file, contacts, main_exc, prompts, sent,
                   generator_frame>>

\* line 102 and lines 168-177: the row has no "platform", KeyError inside the try block
PlatformMissing ==
    /\ main_pc = "generated"
    /\ "platform" \notin DOMAIN contacts[contact_index]
    /\ ContactFails
    /\ UNCHANGED <<draft, stop_on_error, gmail_service, contacts_file, contacts, main_exc, processed,
                   prompts, sent, generator_frame, call_frame>>

\* the platform of the contact in hand is pf
HasPlatform(pf) ==
    /\ main_pc = "generated"
    /\ "platform" \in DOMAIN contacts[contact_index]
    /\ contacts[contact_index]["platform"] = pf

\* lines 102-132: a Gmail contact whose content does not parse into a draft
GmailParseFails ==
    /\ HasPlatform("gmail")
    /\ ~parse_draft(result.text).ok
    /\ ContactFails
    /\ UNCHANGED <<draft, stop_on_error, gmail_service, contacts_file, contacts, main_exc, processed,
                   prompts, sent, generator_frame, call_frame>>

\* lines 102-140: a Gmail contact, the draft is shown and input() waits
GmailShowDraft ==
    /\ HasPlatform("gmail")
    /\ parse_draft(result.text).ok
    /\ draft' = [subject |-> parse_draft(result.text).subject, body |-> parse_draft(result.text).body]
    /\ main_pc' = "confirm"
    /\ UNCHANGED <<stop_on_error, gmail_service, contacts_file, contacts, contact_index, main_exc,
                   processed, failed, prompts, sent, generator_frame, call_frame>>

\* lines 140-157 and 175-177: the operator typed answer
Answer(answer) ==
    /\ main_pc = "confirm"
    /\ prompts' = Append(prompts, [contact |-> contact_index, answer |-> answer])
    /\ sent' =
          IF is_confirmed(answer) /\ gmail_service
          THEN Append(sent, [contact |-> contact_index,
                             to |-> contacts[contact_index]["email"],
                             subject |-> draft.subject,
                             body |-> draft.body])
          ELSE sent
    /\ ToContact(contact_index + 1, contacts)
    /\ UNCHANGED <<draft, stop_on_error, gmail_service, contacts_file, contacts, main_exc, processed,
                   failed, generator_frame, call_frame>>

\* lines 159-177: a LinkedIn contact, the send is simulated (simulate=True)
LinkedinSend ==
    /\ HasPlatform("linkedin")
    /\ "linkedin_urn" \in DOMAIN contacts[contact_index]
    /\ ToContact(contact_index + 1, contacts)
    /\ UNCHANGED <<draft, stop_on_error, gmail_service, contacts_file, contacts, main_exc, processed,
                   failed, prompts, sent, generator_frame, call_frame>>

\* lines 102, 159 and 175-177: neither branch is taken
OtherPlatform ==
    /\ \E pf \in Platforms \ {"gmail", "linkedin"} : HasPlatform(pf)
    /\ ToContact(contact_index + 1, contacts)
    /\ UNCHANGED <<draft, stop_on_error, gmail_service, contacts_file, contacts, main_exc, processed,
                   failed, prompts, sent, generator_frame, call_frame>>

MainNext ==
    \/ MainStart
    \/ MainStartRaises
    \/ ContactWithoutName
    \/ \E outcome \in GenerateOutcomes(ContactName, MESSAGE_CONTEXT) : GenerationReturns(outcome)
    \/ \E outcome \in GenerateOutcomes(ContactName, MESSAGE_CONTEXT) : GenerationRaises(outcome)
    \/ PlatformMissing
    \/ GmailParseFails
    \/ GmailShowDraft
    \/ \E answer \in Answers : Answer(answer)
    \/ LinkedinSend
    \/ OtherPlatform

MainSpec == MainInit /\ [][MainNext]_vars

(***************************************************************************)
(* Concurrent calls.  MaxCallers threads are inside generate_email_content *)
(* at the same time, each in the first pass of the inner loop (lines       *)
(* 102-152) over the shipped model list, all on the one module-level map.  *)
(* The interpreter may switch threads between any two statements, so the   *)
(* membership test of line 105, the read of line 106 and the del of line   *)
(* 116 are separate steps.  The clock stands still while the threads race. *)
(***************************************************************************)
Callers == 1..MaxCallers

\* the time at which the threads run, in ticks
RaceTime == Seconds(100)

\* the maps the threads find: every model has no entry, an entry aged 25 seconds
\* or an entry aged 65 seconds
RaceMaps ==
    UNION {[ms -> {RaceTime - Seconds(25), RaceTime - Seconds(65)}] : ms \in SUBSET {ModelNames[i] : i \in DOMAIN ModelNames}}

Caller(at, index, t) == [pc |-> at, model_index |-> index, current_time |-> t]

\* the model the thread is at
ModelOf(c) == normalize_model_list(config_model)[callers[c].model_index]

\* the for loop of line 102 goes on: the next model, or the end of the pass
NextModel(c) ==
    IF callers[c].model_index < Len(normalize_model_list(config_model))
    THEN Caller("check", callers[c].model_index + 1, callers[c].current_time)
    ELSE Caller("pass_over", callers[c].model_index, callers[c].current_time)

ConcurrentInit ==
    /\ genai = TRUE
    /\ config_model = [is_str |-> FALSE, str |-> "", list |-> ModelNames]
    /\ _model_quota_timestamps \in RaceMaps
    /\ now = RaceTime
    /\ pc = "idle"
    /\ recipient_name = <<>>
    /\ context = <<>>
    /\ model_list = <<>>
    /\ cycle = 0
    /\ after_wait = FALSE
    /\ model_index = 0
    /\ models_tried_this_cycle = 0
    /\ models_in_cooldown = 0
    /\ current_time = <<>>
    /\ result = NoResult
    /\ attempts = <<>>
    /\ sleeps = <<>>
    /\ ev = Event("init", "", <<>>, 0)
    /\ calls = 0
    /\ prev = NoCall
    /\ MainOff
    /\ _quota_exhausted = FALSE
    /\ AuthOff
    /\ callers = [c \in Callers |-> Caller("check", 1, 0)]

\* what a step of a racing thread leaves alone
race_frame == <<genai, config_model, now, pc, recipient_name, context, locals, result, attempts,
                sleeps, ev, calls, prev, main_vars, _quota_exhausted, auth_vars>>

\* lines 104-105: the clock is read and the membership test is made
CheckMembership(c) ==
    /\ callers[c].pc = "check"
    /\ callers' = [callers EXCEPT ![c] =
            Caller(IF ModelOf(c) \in DOMAIN _model_quota_timestamps THEN "read" ELSE "attempt",
                   callers[c].model_index, now)]
    /\ UNCHANGED <<_model_quota_timestamps, race_frame>>

\* lines 106-112: the entry is read (KeyError when it is gone) and its age decides:
\* younger than the window, the model is skipped; else on to the del of line 116
ReadEntry(c) ==
    /\ callers[c].pc = "read"
    /\ callers' = [callers EXCEPT ![c] =
            IF ModelOf(c) \notin DOMAIN _model_quota_timestamps
            THEN Caller("raised", callers[c].model_index, callers[c].current_time)
            ELSE IF in_cooldown(_model_quota_timestamps, ModelOf(c), callers[c].current_time)
            THEN NextModel(c)
            ELSE Caller("del", callers[c].model_index, callers[c].current_time)]
    /\ UNCHANGED <<_model_quota_timestamps, race_frame>>

\* line 116: del _model_quota_timestamps[model_name] (KeyError when it is gone)
DeleteEntry(c) ==
    /\ callers[c].pc = "del"
    /\ IF ModelOf(c) \in DOMAIN _model_quota_timestamps
       THEN /\ _model_quota_timestamps' = del_entry(_model_quota_timestamps, ModelOf(c))
            /\ callers' = [callers EXCEPT ![c] =
                    Caller("attempt", callers[c].model_index, callers[c].current_time)]
       ELSE /\ callers' = [callers EXCEPT ![c] =
                    Caller("raised", callers[c].model_index, callers[c].current_time)]
            /\ UNCHANGED _model_quota_timestamps
    /\ UNCHANGED race_frame

\* lines 118-152: the attempt on the model, with its three ends
AttemptModel(c, outcome) ==
    /\ callers[c].pc = "attempt"
    /\ CASE outcome = "success" ->
                /\ callers' = [callers EXCEPT ![c] =
                        Caller("returned", callers[c].model_index, callers[c].current_time)]
                /\ UNCHANGED _model_quota_timestamps
         [] outcome = "quota" ->
                /\ callers' = [callers EXCEPT ![c] = NextModel(c)]
                /\ _model_quota_timestamps' =
                        record_quota_hit(_model_quota_timestamps, ModelOf(c), callers[c].current_time)
         [] outcome = "failure" ->
                /\ callers' = [callers EXCEPT ![c] = NextModel(c)]
                /\ UNCHANGED _model_quota_timestamps
    /\ UNCHANGED race_frame

ConcurrentNext ==
    \/ \E c \in Callers : CheckMembership(c)
    \/ \E c \in Callers : ReadEntry(c)
    \/ \E c \in Callers : DeleteEntry(c)
    \/ \E c \in Callers, outcome \in {"success", "quota", "failure"} : AttemptModel(c, outcome)

ConcurrentSpec == ConcurrentInit /\ [][ConcurrentNext]_vars

(***************************************************************************)
(* tests/test_quota_optimization.py: a process that calls                  *)
(* generate_email_content with the shipped model list, sets the attribute  *)
(* _quota_exhausted on the module after the first call has returned (line  *)
(* 27) and calls again (lines 32 and 40).                                  *)
(***************************************************************************)
FlagInit ==
    /\ genai = TRUE
    /\ config_model = [is_str |-> FALSE, str |-> "", list |-> ModelNames]
    /\ _model_quota_timestamps = [m \in {} |-> 0]
    /\ now = 0
    /\ pc = "idle"
    /\ recipient_name = <<>>
    /\ context = <<>>
    /\ model_list = <<>>
    /\ cycle = 0
    /\ after_wait = FALSE
    /\ model_index = 0
    /\ models_tried_this_cycle = 0
    /\ models_in_cooldown = 0
    /\ current_time = <<>>
    /\ result = NoResult
    /\ attempts = <<>>
    /\ sleeps = <<>>
    /\ ev = Event("init", "", <<>>, 0)
    /\ calls = 0
    /\ prev = NoCall
    /\ MainOff
    /\ callers = NoCallers
    /\ _quota_exhausted = FALSE
    /\ AuthOff

\* line 27 of the test: llm_generator._quota_exhausted = True, after a call that
\* returned and before a further call
SetQuotaExhausted ==
    /\ CanStart
    /\ result.status = "returned"
    /\ _quota_exhausted = FALSE
    /\ _quota_exhausted' = TRUE
    /\ ev' = Event("flag", "", <<>>, 0)
    /\ UNCHANGED <<auth_vars, callers, main_vars, calls, prev, config, _model_quota_timestamps, now, pc,
                   recipient_name, context, locals, result, attempts, sleeps>>

FlagNext ==
    \/ SetQuotaExhausted
    \/ \E rq \in Requests : GenerateStart(rq)
    \/ SkipInCooldown
    \/ \E msg \in InitErrorMessages : ModelInitFails(msg)
    \/ \E text \in ResponseTexts, d \in CallDurations : GenerateSucceeds(text, d)
    \/ \E msg \in ErrorMessages, d \in CallDurations : GenerateRaises(msg, d)
    \/ \E text \in ResponseTexts, d \in CallDurations : GenerateEmpty(text, d)
    \/ AllInCooldownWait
    \/ AllInCooldownFinal
    \/ PauseBeforeNextCycle
    \/ CyclesExhausted

FlagSpec == FlagInit /\ [][FlagNext]_vars

(***************************************************************************)
(* src/src/server/linkedin_api.py: a process that calls authenticate up to *)
(* MaxAuths times.  The callback server of line 285 serves one request     *)
(* (line 289), any request a browser or another local program can send, or *)
(* none within the timeout of line 286.                                    *)
(***************************************************************************)
\* the values config.LINKEDIN_API can give lines 33 and 34
ClientIds == {"", "YOUR_LINKEDIN_CLIENT_ID", "id"}
ClientSecrets == {"", "YOUR_LINKEDIN_CLIENT_SECRET", "secret"}
\* the values secrets.token_urlsafe(16) can return (line 260)
StateTokens == {"s1", "s2"}
\* authorization codes a callback can carry
Codes == {"c1", "c2"}
\* the error and error_description parameters a callback can carry
ErrorCodes == {"access_denied"}
ErrorDescriptions == {"denied"}
\* the access tokens the token endpoint can issue
AccessTokens == {"t1", "t2"}

\* every query a callback request can carry
Queries ==
    {Query(code, st, error, error_description) :
        code \in Codes \cup {None}, st \in StateTokens \cup {None},
        error \in ErrorCodes \cup {None}, error_description \in ErrorDescriptions \cup {None}}

\* lines 208-225: what _exchange_code_for_token can return: None after a failed
\* request, or the JSON object of the response
TokenResponses ==
    {NoTokenData, TokenData({}, None), TokenData({"expires_in"}, None)}
        \cup {TokenData({"access_token", "expires_in"}, t) : t \in AccessTokens}

\* the truth value Python gives a string or None
Truthy(x) == x # None /\ x # ""
\* the truth value Python gives a dict or None
TruthyData(d) == d.exists /\ d.keys # {}

\* lines 240 and 245: both credentials are configured
Configured ==
    /\ CLIENT_ID \notin {"", "YOUR_LINKEDIN_CLIENT_ID"}
    /\ CLIENT_SECRET \notin {"", "YOUR_LINKEDIN_CLIENT_SECRET"}

\* line 252: existing_token and "access_token" in existing_token
HasAccessToken(existing_token) ==
    TruthyData(existing_token) /\ "access_token" \in existing_token.keys

AuthInit ==
    /\ genai = TRUE
    /\ config_model = [is_str |-> FALSE, str |-> "", list |-> ModelNames]
    /\ _model_quota_timestamps = [m \in {} |-> 0]
    /\ now = 0
    /\ pc = "idle"
    /\ recipient_name = <<>>
    /\ context = <<>>
    /\ model_list = <<>>
    /\ cycle = 0
    /\ after_wait = FALSE
    /\ model_index = 0
    /\ models_tried_this_cycle = 0
    /\ models_in_cooldown = 0
    /\ current_time = <<>>
    /\ result = NoResult
    /\ attempts = <<>>
    /\ sleeps = <<>>
    /\ ev = Event("init", "", <<>>, 0)
    /\ calls = 0
    /\ prev = NoCall
    /\ MainOff
    /\ callers = NoCallers
    /\ _quota_exhausted = FALSE
    /\ CLIENT_ID \in ClientIds
    /\ CLIENT_SECRET \in ClientSecrets
    /\ token_file \in {NoTokenData, TokenData({"access_token", "expires_in"}, "t0")}
    /\ OAuthCallbackHandler = HandlerReset
    /\ state = None
    /\ auth_pc = "idle"
    /\ auth_result = NoAuthResult
    /\ callback = NoRequest
    /\ exchanged = <<>>
    /\ saved = FALSE
    /\ auths = 0

\* what a step of authenticate leaves alone
auth_frame == <<genai, config_model, _model_quota_timestamps, now, pc, recipient_name, context,
                locals, result, attempts, sleeps, ev, calls, prev, main_vars, callers,
                _quota_exhausted, CLIENT_ID, CLIENT_SECRET>>

\* a call of authenticate begins
BeginAuth ==
    /\ auth_pc = "idle"
    /\ auths < MaxAuths
    /\ auths' = auths + 1
    /\ callback' = NoRequest
    /\ exchanged' = <<>>
    /\ saved' = FALSE

\* lines 240-248: a credential is missing or is the placeholder
AuthenticateNotConfigured ==
    /\ BeginAuth
    /\ ~Configured
    /\ auth_result' = AuthResult(None, "config")
    /\ UNCHANGED <<auth_frame, token_file, OAuthCallbackHandler, state, auth_pc>>

\* lines 251-256: the stored token passes validate_access and is returned
UseExistingToken ==
    /\ BeginAuth
    /\ Configured
    /\ HasAccessToken(token_file)
    /\ auth_result' = AuthResult(token_file.access_token, "existing")
    /\ UNCHANGED <<auth_frame, token_file, OAuthCallbackHandler, state, auth_pc>>

\* lines 251-289: no stored token, or validate_access returned False for it (valid);
\* the state is drawn, the handler attributes are reset and the server waits
AuthenticateStart(s, valid) ==
    /\ BeginAuth
    /\ Configured
    /\ ~(HasAccessToken(token_file) /\ valid)
    /\ state' = s
    /\ OAuthCallbackHandler' = HandlerReset
    /\ auth_pc' = "waiting"
    /\ auth_result' = NoAuthResult
    /\ UNCHANGED <<auth_frame, token_file>>

\* lines 61-74: the handler serves the one request of handle_request
do_GET(query_params) ==
    /\ auth_pc = "waiting"
    /\ OAuthCallbackHandler' =
          IF query_params.code # None
          THEN [OAuthCallbackHandler EXCEPT !.authorization_code = query_params.code,
                                            !.state = query_params.state]
          ELSE IF query_params.error # None
          THEN [OAuthCallbackHandler EXCEPT
                   !.error = IF query_params.error_description # None
                             THEN query_params.error_description
                             ELSE "Unknown error"]
          ELSE OAuthCallbackHandler
    /\ callback' = query_params
    /\ auth_pc' = "handled"
    /\ UNCHANGED <<auth_frame, token_file, state, auth_result, exchanged, saved, auths>>

\* lines 286-289: no request arrives within server.timeout
handle_timeout ==
    /\ auth_pc = "waiting"
    /\ auth_pc' = "handled"
    /\ UNCHANGED <<auth_frame, token_file, OAuthCallbackHandler, state, auth_result, callback,
                   exchanged, saved, auths>>

\* lines 292-304: one of the three checks returns None
Rejected ==
    \/ Truthy(OAuthCallbackHandler.error)
    \/ OAuthCallbackHandler.state # state
    \/ ~Truthy(OAuthCallbackHandler.authorization_code)

AuthenticateRejects ==
    /\ auth_pc = "handled"
    /\ Rejected
    /\ auth_result' = AuthResult(None, "new")
    /\ auth_pc' = "idle"
    /\ UNCHANGED <<auth_frame, token_file, OAuthCallbackHandler, state, callback, exchanged,
                   saved, auths>>

\* lines 306-312 with _exchange_code_for_token (187-225) and _save_token (153-165):
\* the code is posted; a truthy answer is saved, unless the write fails, and its
\* access_token is returned
ExchangeCodeForToken(token_data, writable) ==
    /\ auth_pc = "handled"
    /\ ~Rejected
    /\ exchanged' = Append(exchanged, OAuthCallbackHandler.authorization_code)
    /\ IF TruthyData(token_data)
       THEN /\ token_file' = IF writable THEN token_data ELSE token_file
            /\ saved' = writable
            /\ auth_result' = AuthResult(token_data.access_token, "new")
       ELSE /\ UNCHANGED <<token_file, saved>>
            /\ auth_result' = AuthResult(None, "new")
    /\ auth_pc' = "idle"
    /\ UNCHANGED <<auth_frame, OAuthCallbackHandler, state, callback, auths>>

AuthNext ==
    \/ AuthenticateNotConfigured
    \/ UseExistingToken
    \/ \E s \in StateTokens, valid \in BOOLEAN : AuthenticateStart(s, valid)
    \/ \E query_params \in Queries : do_GET(query_params)
    \/ handle_timeout
    \/ AuthenticateRejects
    \/ \E token_data \in TokenResponses, writable \in BOOLEAN :
          ExchangeCodeForToken(token_data, writable)

AuthSpec == AuthInit /\ [][AuthNext]_vars

(***************************************************************************)
(* Vocabulary of the properties.                                           *)
(***************************************************************************)
\* the last call has returned or raised
CallOver == pc = "idle" /\ result.status \in {"returned", "raised"}

\* the model list the calls of this process iterate over
ConfiguredModels == normalize_model_list(config_model)

\* the model has an entry younger than 60 seconds
Cooling(m) ==
    /\ m \in DOMAIN _model_quota_timestamps
    /\ now - _model_quota_timestamps[m] < 60 * TicksPerSecond

\* the text decodes as an object with exactly the keys "subject" and "body",
\* both non-empty
WellFormedPayload(text) ==
    LET o == json_loads(text) IN
        /\ o.ok
        /\ DOMAIN o.obj = {KeySubject, KeyBody}
        /\ o.obj[KeySubject] # <<>>
        /\ o.obj[KeyBody] # <<>>

\* the request whose characters json.dumps escapes
EscapedRequest == [recipient_name |-> <<"O", "\"", NonAscii>>, context |-> <<"a", "\\", "\n", "b">>]

(***************************************************************************)
(* Properties.                                                             *)
(***************************************************************************)

\* C1: generate_email_content never raises to its caller: whatever the model
\* list, the prior content of the quota map and the outcomes of the attempts,
\* the call ends by returning a string.
C1_NeverRaises == result.status # "raised"

\* C2: the string generate_email_content returns decodes as an object with
\* exactly the keys "subject" and "body", both non-empty, on the success exit
\* as well as on the fallback exits.
C2_ReturnedPayloadShape == result.status = "returned" => WellFormedPayload(result.text)

\* C3: if every attempt of a call ends in a quota failure of the model, the call
\* makes at most max_cycles passes and returns the fallback content.
C3_AllQuotaEndsInFallback ==
    /\ cycle < max_cycles
    /\ (CallOver /\ attempts # <<>> /\ \A i \in DOMAIN attempts : attempts[i].outcome = "quota")
        => result = Returned(fallback(recipient_name, context), "fallback")

\* C4: an entry of model M with timestamp T makes every availability check of M
\* at a time T+e with e < 60 s skip M (no attempt, the entry stays), and the
\* first check with e >= 60 s treats M as available: M is attempted and the
\* entry of time T is gone.
C4_CooldownRespected ==
    [][(InLoopBody /\ model_list[model_index] \in DOMAIN _model_quota_timestamps) =>
        LET m == model_list[model_index]
            e == now - _model_quota_timestamps[m]
        IN  IF e < 60 * TicksPerSecond
            THEN /\ attempts' = attempts
                 /\ models_in_cooldown' = models_in_cooldown + 1
                 /\ _model_quota_timestamps' = _model_quota_timestamps
            ELSE /\ Invoked' = Append(Invoked, m)
                 /\ \/ m \notin DOMAIN _model_quota_timestamps'
                    \/ _model_quota_timestamps'[m] = now
       ]_vars

\* C4 witness: the entries written 0 s and 25 s before time 0 are checked at time
\* 35 s: the first model (e = 35 s) was skipped, the second (e = 60 s exactly)
\* was attempted and its entry evicted.
C4_Witness ==
    /\ pc = "loop"
    /\ ev.kind = "gen_error"
    /\ ev.model = ModelNames[2]
    /\ now = Seconds(35) + 1
    /\ models_in_cooldown = 1
    /\ Invoked = <<ModelNames[2]>>
    /\ ModelNames[1] \in DOMAIN _model_quota_timestamps
    /\ _model_quota_timestamps[ModelNames[1]] = 0
    /\ ModelNames[2] \notin DOMAIN _model_quota_timestamps

\* C5: when every model of the list is available at the start of a call and the
\* attempt on the first model succeeds, the call returns that text having
\* invoked the first model only; a successful attempt is always the last
\* attempt of its call.
C5_FirstSuccessOnly ==
    /\ [](\A i \in 1..(Len(attempts) - 1) : attempts[i].outcome # "success")
    /\ [][(/\ InLoopBody /\ cycle = 0 /\ model_index = 1
           /\ \A i \in DOMAIN model_list : ~Cooling(model_list[i])
           /\ ev'.kind = "success")
          => (/\ pc' = "idle"
              /\ result' = Returned(ev'.msg, "success")
              /\ Invoked' = <<model_list[1]>>)
         ]_vars

\* C5 witness: with the three shipped models and an empty map, the call is over
\* after one successful attempt on the first model.
C5_Witness ==
    /\ CallOver
    /\ ConfiguredModels = ModelNames
    /\ DOMAIN _model_quota_timestamps = {}
    /\ result.exit = "success"
    /\ Invoked = <<ModelNames[1]>>

\* C6: in every pass a model whose entry is younger than 60 s is skipped without
\* being invoked, a model without such an entry is invoked, and the first model
\* invoked in a pass is the first of the list, in list order, that is not in
\* cooldown.
C6_SkipOnCooldown ==
    [][InLoopBody =>
        LET m == model_list[model_index] IN
            /\ Cooling(m) => attempts' = attempts
            /\ ~Cooling(m) => Invoked' = Append(Invoked, m)
            /\ (attempts' # attempts /\ models_tried_this_cycle = 0)
                => \A j \in 1..(model_index - 1) : Cooling(model_list[j])
       ]_vars

\* C6 witness: the state of tests/test_model_cycling.py: the entries aged 0 s and
\* 25 s were skipped and the model with the entry aged 65 s was attempted.
C6_Witness ==
    /\ pc = "loop"
    /\ cycle = 0
    /\ models_in_cooldown = 2
    /\ Invoked = <<ModelNames[3]>>
    /\ now = 1
    /\ ModelNames[1] \in DOMAIN _model_quota_timestamps
    /\ ModelNames[2] \in DOMAIN _model_quota_timestamps
    /\ _model_quota_timestamps[ModelNames[1]] = 0
    /\ _model_quota_timestamps[ModelNames[2]] = -Seconds(25)

\* the call made exactly two attempts, before any sleep: a quota failure of the
\* first of two configured models, then a success of the second
QuotaThenSuccess ==
    /\ CallOver
    /\ ev.kind = "success"
    /\ sleeps = <<>>
    /\ Len(ConfiguredModels) = 2
    /\ attempts = <<Attempt(ConfiguredModels[1], "quota"), Attempt(ConfiguredModels[2], "success")>>

\* C7: with two models, both available, where the attempt on the first raises a
\* quota error and the attempt on the second returns a text X, the call returns
\* exactly X, and right after the call the first model has a fresh entry (a check
\* would skip it) while the second has none.
C7_QuotaThenSuccess ==
    QuotaThenSuccess =>
        /\ result = Returned(ev.msg, "success")
        /\ Cooling(ConfiguredModels[1])
        /\ ConfiguredModels[2] \notin DOMAIN _model_quota_timestamps

\* C7 witness: such a call has just returned.
C7_Witness == QuotaThenSuccess /\ DOMAIN _model_quota_timestamps = {ConfiguredModels[1]}

\* C8: an empty model list short-circuits to the fallback content: no second
\* pass, no sleep, no attempt, and the call returns the fallback.
C8_EmptyListShortCircuits ==
    (genai /\ ConfiguredModels = <<>> /\ calls >= 1) =>
        /\ sleeps = <<>>
        /\ attempts = <<>>
        /\ cycle = 0
        /\ CallOver => result = Returned(fallback(recipient_name, context), "fallback")

\* C9: with zero configured models, a call and the call before it, given the same
\* recipient name and context, both return, and return the same fallback text.
C9_FallbackDeterministic ==
    (/\ genai /\ ConfiguredModels = <<>>
     /\ CallOver /\ calls >= 2
     /\ prev.recipient_name = recipient_name /\ prev.context = context)
    => (/\ result.status = "returned" /\ result.exit = "fallback"
        /\ prev.result.status = "returned"
        /\ result.text = prev.result.text)

\* C10: whenever a call returns fallback content, the decoded body contains the
\* recipient name and the context, and the decoded subject contains the
\* recipient name.
C10_FallbackEmbedsInputs ==
    (CallOver /\ result.exit = "fallback") =>
        LET o == json_loads(result.text) IN
            /\ o.ok
            /\ {KeySubject, KeyBody} \subseteq DOMAIN o.obj
            /\ Contains(o.obj[KeyBody], recipient_name)
            /\ Contains(o.obj[KeyBody], context)
            /\ Contains(o.obj[KeySubject], recipient_name)

\* C10 witness: the fallback was returned, after attempts that all failed, for the
\* request whose characters are escaped in the payload.
C10_Witness ==
    /\ CallOver
    /\ result.exit = "fallback"
    /\ attempts # <<>>
    /\ recipient_name = EscapedRequest.recipient_name
    /\ context = EscapedRequest.context

\* C11: without the library a call returns the fallback content in the step
\* that starts it: no attempt on a model, no sleep, the clock and the quota map
\* as they were.
C11_NoLibraryImmediateFallback ==
    [][(pc = "idle" /\ genai = FALSE /\ calls' = calls + 1) =>
        /\ pc' = "idle"
        /\ result' = Returned(fallback(recipient_name', context'), "fallback")
        /\ attempts' = <<>>
        /\ sleeps' = <<>>
        /\ now' = now
        /\ _model_quota_timestamps' = _model_quota_timestamps
      ]_vars

\* C11 witness: a call without the library has returned the fallback while the
\* map holds the three entries written before the call.
C11_Witness ==
    /\ genai = FALSE
    /\ CallOver
    /\ ev.kind = "no_library"
    /\ result.exit = "fallback"
    /\ attempts = <<>>
    /\ sleeps = <<>>
    /\ _model_quota_timestamps = PrimedMap(0)

\* C12: the quota map outlives the calls: nothing changes it between two calls
\* or when a later call starts, and a later call skips, without an attempt, every
\* model whose entry is younger than 60 s when the call checks it.
C12_MapPersistsAcrossCalls ==
    [][/\ (pc = "idle" /\ result.status # "none")
            => _model_quota_timestamps' = _model_quota_timestamps
       /\ (InLoopBody /\ calls >= 2 /\ Cooling(model_list[model_index]))
            => (/\ ev'.kind = "skip"
                /\ attempts' = attempts
                /\ _model_quota_timestamps' = _model_quota_timestamps)
      ]_vars

\* C12 witness: the second call of the process has just skipped the first model,
\* whose entry (the only one of the map) the first call recorded.
C12_Witness ==
    /\ calls = 2
    /\ pc = "loop"
    /\ cycle = 0
    /\ ev.kind = "skip"
    /\ ev.model = ModelNames[1]
    /\ attempts = <<>>
    /\ DOMAIN _model_quota_timestamps = {ModelNames[1]}
    /\ now > _model_quota_timestamps[ModelNames[1]]

\* C13: the payload returned when genai is None and the payload returned after
\* the cycles are exhausted are the same text for the same recipient name,
\* context and sender name, an object with exactly the keys "subject" and "body".
C13_FallbackExitsIdentical ==
    (CallOver /\ result.exit = "fallback") =>
        /\ result.text = fallback_no_library(recipient_name, context)
        /\ result.text = fallback(recipient_name, context)
        /\ json_loads(result.text).ok
        /\ DOMAIN json_loads(result.text).obj = {KeySubject, KeyBody}

\* C13 witness: the exit of line 79 returned the payload for the request whose
\* characters are escaped.
C13_Witness ==
    /\ genai = FALSE
    /\ CallOver
    /\ result.exit = "fallback"
    /\ recipient_name = EscapedRequest.recipient_name
    /\ context = EscapedRequest.context
    /\ result.text = fallback(EscapedRequest.recipient_name, EscapedRequest.context)

\* the characters Python's str.strip() removes that the model's texts use
Whitespace == {" ", "\t", "\n", "\r"}

\* the text is missing (empty) or made of whitespace only
IsBlank(text) == \A i \in DOMAIN text : text[i] \in Whitespace

\* C17: a generated text that is missing or whitespace-only is never returned;
\* the attempt counts as a non-quota failure, the pass goes on and the model that
\* produced the text gets no entry in the quota map.
C17_BlankTextIsFailure ==
    /\ result.exit = "success" => ~IsBlank(result.text)
    /\ ev.kind = "empty" =>
        /\ pc = "loop"
        /\ attempts[Len(attempts)] = Attempt(ev.model, "failure")
        /\ ev.model \notin DOMAIN _model_quota_timestamps

\* the smallest remaining cooldown over the entries of the map, in ticks
MinRemaining ==
    SetMin({60 * TicksPerSecond - (now - _model_quota_timestamps[m]) : m \in DOMAIN _model_quota_timestamps})

\* C18 as stated: the sleep between two passes after a pass in which every model
\* was skipped lasts exactly the minimum remaining cooldown over the entries of
\* the map.
C18_SleepsExactMinimum ==
    [][(ev'.kind = "wait" /\ DOMAIN _model_quota_timestamps # {}) => now' - now = MinRemaining]_vars

\* C18 amended: after a pass in which every model was skipped and which is not
\* the final pass, the call sleeps int(r) + 1 whole seconds before the next pass,
\* r being the smaller of 60 s and the minimum remaining cooldown over the entries
\* of the map (for r >= 0: more than r, and at most one second more); the step
\* raises instead when that number is negative or when line 159 reads the
\* unbound current_time.
C18_SleepsTruncatedMinimumPlusOne ==
    [][(PassOver /\ AllInCooldown /\ cycle < max_cycles - 1) =>
        LET r == IF DOMAIN _model_quota_timestamps = {} \/ MinRemaining > 60 * TicksPerSecond
                 THEN 60 * TicksPerSecond ELSE MinRemaining
            w == (IF r >= 0 THEN r \div TicksPerSecond ELSE -((-r) \div TicksPerSecond)) + 1
        IN  IF model_list = <<>> /\ DOMAIN _model_quota_timestamps # {}
            THEN result' = Raised("UnboundLocalError")
            ELSE IF w < 0
            THEN result' = Raised("ValueError")
            ELSE /\ sleeps' = Append(sleeps, w)
                 /\ now' - now = w * TicksPerSecond
                 /\ r >= 0 => (now' - now > r /\ now' - now <= r + TicksPerSecond)
                 /\ pc' = "loop"
                 /\ cycle' = cycle + 1
      ]_vars

\* C18 witness: the only model failed on quota at time 0, the call paused 3 s and
\* found the model in cooldown with 56.5 s remaining: it slept 57 s.
C18_Witness ==
    /\ ev.kind = "wait"
    /\ model_list = <<ModelNames[1]>>
    /\ DOMAIN _model_quota_timestamps = {ModelNames[1]}
    /\ _model_quota_timestamps[ModelNames[1]] = 0
    /\ sleeps = <<3, 57>>
    /\ now = 1 + 60 * TicksPerSecond

\* C19: right after a quota failure of model M is recorded, the timestamp stored
\* for M is the clock value of that moment.
C19_TimestampIsFailureTime ==
    (pc = "loop" /\ ev.kind = "gen_error" /\ is_quota_error(ev.msg))
        => (/\ ev.model \in DOMAIN _model_quota_timestamps
            /\ _model_quota_timestamps[ev.model] = now)

\* the attempts of the pass in progress: the last models_tried_this_cycle ones
PassAttempts == (Len(attempts) - models_tried_this_cycle + 1)..Len(attempts)

\* C20: a generation call on M that fails with an error classified as quota gives
\* M an entry in the map and moves the pass on to the next model of the list, the
\* call still running; no model is attempted again in the pass of its quota
\* failure.
C20_QuotaFailureMovesOn ==
    /\ [](pc = "loop" =>
            \A i, j \in PassAttempts :
                (i < j /\ attempts[i].outcome = "quota") => attempts[j].model # attempts[i].model)
    /\ [][(InLoopBody /\ ev'.kind = "gen_error" /\ is_quota_error(ev'.msg)) =>
            LET m == model_list[model_index] IN
                /\ ev'.model = m
                /\ m \in DOMAIN _model_quota_timestamps'
                /\ now' - _model_quota_timestamps'[m] < 60 * TicksPerSecond
                /\ pc' = "loop"
                /\ result' = Running
                /\ cycle' = cycle
                /\ model_list' = model_list
                /\ model_index' = model_index + 1
         ]_vars

\* C20 witness: in the first pass over the three shipped models the first two
\* failed on quota, one after the other, and the third is next.
C20_Witness ==
    /\ pc = "loop"
    /\ cycle = 0
    /\ model_list = ModelNames
    /\ model_index = 3
    /\ attempts = <<Attempt(ModelNames[1], "quota"), Attempt(ModelNames[2], "quota")>>
    /\ DOMAIN _model_quota_timestamps = {ModelNames[1], ModelNames[2]}

\* main returned or an exception left it
MainOver == main_pc \in {"done", "raised"}

\* C14: with stop_on_error true no contact after one whose processing hit an
\* error is processed; with stop_on_error false every contact of the file is
\* processed by the time main is over.
C14_StopOnError ==
    /\ stop_on_error =>
         \A i \in failed : \A k \in DOMAIN processed : processed[k] <= i
    /\ (~stop_on_error /\ MainOver /\ contacts_file.exists) =>
         processed = [k \in 1..Len(contacts_file.rows) |-> k]

\* C15: when contacts.csv does not exist, get_contacts returns the empty list
\* and no exception leaves it (so none leaves the main that called it).
C15_MissingFileGivesEmptyList ==
    (main_pc # "init" /\ ~contacts_file.exists) =>
        /\ get_contacts(contacts_file) = [raised |-> "", contacts |-> <<>>]
        /\ main_pc # "raised"
        /\ contacts = <<>>

\* the prompt answers that are the letter y, in either case, with whitespace
\* around it
YesAnswers == { <<"y">>, <<"Y">>, <<" ", "y", " ">> }

\* the answers typed at the prompts shown for the contact at position i
AnswersFor(i) == {prompts[k].answer : k \in {j \in DOMAIN prompts : prompts[j].contact = i}}

\* C16 as stated: a message is handed to gmail_api.send_message for a contact
\* only if the answer to that contact's prompt was 'y', and any other answer
\* leaves the contact without a send.
C16_SendOnlyAfterExactY ==
    /\ \A k \in DOMAIN sent : AnswersFor(sent[k].contact) = {<<"y">>}
    /\ \A j \in DOMAIN prompts :
         prompts[j].answer # <<"y">> => \A k \in DOMAIN sent : sent[k].contact # prompts[j].contact

\* C16 amended: a message is handed to gmail_api.send_message for a contact only
\* in the step that answers the prompt shown for that contact, with an answer
\* that is the letter y in either case and with whitespace around it; any other
\* answer leaves the contact without a send, and each contact gets one prompt
\* and at most one send.
C16_SendOnlyAfterConfirmation ==
    /\ [](/\ \A k \in DOMAIN sent :
               /\ AnswersFor(sent[k].contact) # {}
               /\ AnswersFor(sent[k].contact) \subseteq YesAnswers
          /\ \A j \in DOMAIN prompts :
               prompts[j].answer \notin YesAnswers
                   => \A k \in DOMAIN sent : sent[k].contact # prompts[j].contact
          /\ \A j1, j2 \in DOMAIN prompts : prompts[j1].contact = prompts[j2].contact => j1 = j2
          /\ \A k1, k2 \in DOMAIN sent : sent[k1].contact = sent[k2].contact => k1 = k2)
    /\ [][sent' # sent =>
            /\ main_pc = "confirm"
            /\ prompts' = Append(prompts, [contact |-> contact_index, answer |-> prompts'[Len(prompts')].answer])
            /\ Len(sent') = Len(sent) + 1
            /\ sent'[Len(sent')].contact = contact_index
            /\ sent'[Len(sent')].subject = draft.subject
            /\ sent'[Len(sent')].body = draft.body
         ]_vars

\* C16 witness: of two Gmail contacts the first was answered "n" and got no
\* send, the second was answered " y " and its draft was handed over.
C16_Witness ==
    /\ main_pc = "done"
    /\ Len(prompts) = 2
    /\ prompts[1] = [contact |-> 1, answer |-> <<"n">>]
    /\ prompts[2] = [contact |-> 2, answer |-> <<" ", "y", " ">>]
    /\ Len(sent) = 1
    /\ sent[1].contact = 2
    /\ sent[1].subject = <<"S">>

\* C21: a failure raised by genai.GenerativeModel(M) is classified like a failure
\* of the generation call: when its message carries a quota marker M gets an
\* entry in the quota map (cooldown), otherwise M gets none; either way the pass
\* moves on to the next model.
C21_InitFailureClassified ==
    (pc = "loop" /\ ev.kind = "init_error") =>
        /\ is_quota_error(ev.msg) => Cooling(ev.model)
        /\ ~is_quota_error(ev.msg) => ev.model \notin DOMAIN _model_quota_timestamps
        /\ model_index >= 2
        /\ model_list[model_index - 1] = ev.model

\* the entries of the quota map the step adds or changes
Written ==
    {m \in DOMAIN _model_quota_timestamps' :
        m \notin DOMAIN _model_quota_timestamps
        \/ _model_quota_timestamps'[m] # _model_quota_timestamps[m]}

\* C22: an attempt that ends in a failure not classified as quota (the empty
\* response included) or in success adds no entry to the quota map and changes
\* none; inside generate_email_content only a generation call that failed with a
\* message classified as quota adds or changes an entry, and only the entry of
\* the model it called (the test that primes the map writes it between calls).
C22_OnlyQuotaFailureWrites ==
    [][/\ (ev'.kind \in {"success", "empty", "init_error"}
            \/ (ev'.kind = "gen_error" /\ ~is_quota_error(ev'.msg))) => Written = {}
       /\ (Written # {} /\ ev'.kind # "primed") =>
            /\ ev'.kind = "gen_error"
            /\ is_quota_error(ev'.msg)
            /\ Written = {ev'.model}
      ]_vars

\* C22 witness: the first model failed on quota and has its entry, the second
\* answered with an empty response and has none.
C22_Witness ==
    /\ pc = "loop"
    /\ ev.kind = "empty"
    /\ attempts = <<Attempt(ModelNames[1], "quota"), Attempt(ModelNames[2], "failure")>>
    /\ DOMAIN _model_quota_timestamps = {ModelNames[1]}

\* the entries of the quota map the step removes
Removed == DOMAIN _model_quota_timestamps \ DOMAIN _model_quota_timestamps'

\* the step checks the availability of m and goes on to attempt it
Attempts(m) ==
    /\ InLoopBody
    /\ model_list[model_index] = m
    /\ Len(attempts') = Len(attempts) + 1
    /\ attempts'[Len(attempts')].model = m

\* C23: an entry leaves the quota map only in the availability check of its own
\* model, when the check finds it at least 60 seconds old; the model is then
\* treated as available (it is attempted) and its old entry is gone (after a
\* quota failure of that attempt the model has a new entry, stamped with the time
\* of the check).  A check that finds a younger entry skips the model and leaves
\* the map as it is, and no other step removes an entry.
C23_LazyEvictionOnly ==
    [][/\ \A m \in Removed :
            /\ Attempts(m)
            /\ now - _model_quota_timestamps[m] >= 60 * TicksPerSecond
       /\ \A m \in DOMAIN _model_quota_timestamps :
            (InLoopBody /\ model_list[model_index] = m) =>
                IF now - _model_quota_timestamps[m] >= 60 * TicksPerSecond
                THEN /\ Attempts(m)
                     /\ m \in DOMAIN _model_quota_timestamps' => _model_quota_timestamps'[m] = now
                ELSE /\ ev'.kind = "skip"
                     /\ attempts' = attempts
                     /\ _model_quota_timestamps' = _model_quota_timestamps
      ]_vars

\* C23 witness: the test primed the map with entries aged 0, 25 and 65 seconds;
\* the pass skipped the first two models, found the third entry stale and attempted
\* the third model, whose entry is gone.
C23_Witness ==
    /\ pc = "loop"
    /\ cycle = 0
    /\ model_list = ModelNames
    /\ models_in_cooldown = 2
    /\ attempts = <<Attempt(ModelNames[3], "failure")>>
    /\ DOMAIN _model_quota_timestamps = {ModelNames[1], ModelNames[2]}

\* the positions of the attempts that produced a non-empty response
Successes == {i \in DOMAIN attempts : attempts[i].outcome = "success"}

\* the ends C24 allows a finished call
SuccessOrFallback ==
    IF Successes # {}
    THEN /\ Successes = {Len(attempts)}
         /\ result.status = "returned"
         /\ result.exit = "success"
         /\ result.text # <<>>
    ELSE result = Returned(fallback(recipient_name, context), "fallback")

\* the step of the attempt that produces a non-empty response: it is the first
\* such attempt of the call, the call returns its text as it is, and nothing is
\* invoked or slept afterwards
SuccessStep ==
    ev'.kind = "success" =>
        /\ Successes = {}
        /\ ev'.msg # <<>>
        /\ attempts' = Append(attempts, Attempt(model_list[model_index], "success"))
        /\ result' = Returned(ev'.msg, "success")
        /\ pc' = "idle"
        /\ sleeps' = sleeps

\* C24: when an attempt produced a non-empty response, that attempt is the first
\* such one in pass order then list order and the last attempt of the call, the
\* call returns its text unchanged through the success exit, and no sleep follows
\* it.  Every other call ends by returning the fallback content.
C24_SuccessOrFallback ==
    /\ []((CallOver /\ calls > 0) => SuccessOrFallback)
    /\ [][SuccessStep]_vars

\* C25: after a pass that is not the final one, in which at least one model was
\* attempted and no attempt succeeded, the call sleeps 3 seconds and starts the
\* next pass; so it does when other models of the pass were skipped for cooldown.
C25_FixedPauseAfterFailedPass ==
    [][(PassOver /\ models_tried_this_cycle > 0 /\ cycle < max_cycles - 1) =>
            /\ sleeps' = Append(sleeps, 3)
            /\ now' = now + 3 * TicksPerSecond
            /\ pc' = "loop"
            /\ result' = Running
            /\ cycle' = cycle + 1
            /\ model_index' = 1
      ]_vars

\* C25 witness: in the first pass over the three shipped models two were skipped
\* for cooldown and the third was attempted and failed; the call slept 3 seconds
\* and is at the start of the second pass.
C25_Witness ==
    /\ pc = "loop"
    /\ cycle = 1
    /\ model_index = 1
    /\ model_list = ModelNames
    /\ attempts = <<Attempt(ModelNames[3], "failure")>>
    /\ Cooling(ModelNames[2])
    /\ sleeps = <<3>>

\* C26: the final pass is never followed by a sleep: whether every model was
\* skipped or some were attempted and failed, the call returns the fallback content
\* at once; a call therefore sleeps at most max_cycles - 1 = 2 times.
C26_NoSleepAfterFinalPass ==
    /\ [](Len(sleeps) <= 2)
    /\ [][(PassOver /\ cycle = max_cycles - 1) =>
            /\ sleeps' = sleeps
            /\ now' = now
            /\ pc' = "idle"
            /\ result' = Returned(fallback(recipient_name, context), "fallback")
         ]_vars

\* C26 witness: the only model failed in the first pass, failed on quota in the
\* second and was skipped in the third; the call slept twice and returned the
\* fallback content.
C26_Witness ==
    /\ CallOver
    /\ ev.kind = "fallback"
    /\ ConfiguredModels = <<ModelNames[1]>>
    /\ attempts = <<Attempt(ModelNames[1], "failure"), Attempt(ModelNames[1], "quota")>>
    /\ sleeps = <<3, 3>>
    /\ result = Returned(fallback(recipient_name, context), "fallback")

\* C27: within one call no model is attempted twice in the same pass, and the
\* call makes at most max_cycles x (number of models) = 3 x len(model_list)
\* attempts in all (an attempt invokes the generation call at most once).
C27_OneAttemptPerModelPerPass ==
    /\ pc = "loop" =>
        /\ \A i, j \in PassAttempts : i # j => attempts[i].model # attempts[j].model
        /\ Len(attempts) <= (cycle + 1) * Len(model_list)
    /\ Len(attempts) <= 3 * Len(ConfiguredModels)

\* C27 witness: every one of the three shipped models was attempted in each of
\* the three passes and failed; the call ended after 9 attempts.
C27_Witness ==
    /\ CallOver
    /\ ConfiguredModels = ModelNames
    /\ Len(attempts) = 9
    /\ \A i \in 1..9 : attempts[i].model = ModelNames[((i - 1) % 3) + 1]
    /\ result.exit = "fallback"

RECURSIVE Sum(_)
\* the sum of a sequence of numbers
Sum(ns) == IF ns = <<>> THEN 0 ELSE Head(ns) + Sum(Tail(ns))

\* C29: the seconds one call spends in its own sleeps (cooldown waits and fixed
\* pauses together) never exceed MAX_CYCLES x the cooldown window = 3 x 60.
C29_TotalSleepBounded == Sum(sleeps) <= 3 * 60

\* C29 witness: with an empty model list and an empty map the first two passes
\* each wait 61 seconds before the fallback is returned.
C29_Witness ==
    /\ CallOver
    /\ ConfiguredModels = <<>>
    /\ sleeps = <<61, 61>>
    /\ result.exit = "fallback"

\* C30: with several threads inside generate_email_content the availability
\* check of a stale entry is an atomic read-and-evict: no thread raises at the
\* read of line 106 or at the del of line 116 because another thread removed the
\* entry after the membership test, and the entry a thread removes is the stale
\* one it has read, so no model with an entry younger than 60 seconds is made
\* available by the del.
C30_AtomicCheckAndEvict ==
    /\ [](\A c \in DOMAIN callers : callers[c].pc # "raised")
    /\ [][\A c \in DOMAIN callers :
            (callers[c].pc = "del" /\ callers'[c].pc = "attempt") =>
                now - _model_quota_timestamps[ModelOf(c)] >= 60 * TicksPerSecond
         ]_vars

\* the models of the configured list
ListModels == {ConfiguredModels[i] : i \in DOMAIN ConfiguredModels}

\* C31: the map starts empty, and a step of a generate_email_content call never
\* gives it a key that is not a model of the list (only the test that primes the
\* map writes other keys), so after any sequence of calls on an empty map every
\* key is a model of the list.  When a model is attempted its entry, if it had
\* one, was at least 60 seconds old and was removed by the check: an entry the
\* model has after the attempt is the one the attempt recorded, so a recorded
\* exhaustion never overwrites a live entry.
C31_KeysAreListModels ==
    [][/\ (DOMAIN _model_quota_timestamps \subseteq ListModels /\ ev'.kind # "primed")
            => DOMAIN _model_quota_timestamps' \subseteq ListModels
       /\ \A m \in ListModels :
            Attempts(m) =>
                /\ m \in DOMAIN _model_quota_timestamps
                        => now - _model_quota_timestamps[m] >= 60 * TicksPerSecond
                /\ m \in DOMAIN _model_quota_timestamps' => _model_quota_timestamps'[m] = now
      ]_vars

\* C31 witness: in a second call, more than 60 seconds after its quota failure in
\* the first, the first model was attempted again and failed on quota again: its
\* entry is the new one.
C31_Witness ==
    /\ calls = 2
    /\ pc = "loop"
    /\ model_list = <<ModelNames[1], ModelNames[2]>>
    /\ attempts = <<Attempt(ModelNames[1], "quota")>>
    /\ DOMAIN _model_quota_timestamps = {ModelNames[1]}
    /\ _model_quota_timestamps[ModelNames[1]] >= 60 * TicksPerSecond

\* the three markers, as written
Markers ==
    { <<"4", "2", "9">>,
      <<"R", "e", "s", "o", "u", "r", "c", "e", "E", "x", "h", "a", "u", "s", "t", "e", "d">>,
      <<"Q", "u", "o", "t", "a">> }

HasMarker(msg) == \E marker \in Markers : Contains(msg, marker)

\* the step treats the failure as a quota failure: the model called gets an entry
\* stamped with the time of its check
ClassifiedAsQuota ==
    /\ ev'.model \in DOMAIN _model_quota_timestamps'
    /\ _model_quota_timestamps'[ev'.model] = now

\* C32: a failure that reaches the handler of the generation call (an exception
\* of generate_content, or the ValueError the function raises itself on an empty
\* response) is classified as a quota failure exactly when its message contains
\* "429", "ResourceExhausted" or "Quota" as written; "quota" in lower case and the
\* empty-response failure are classified as non-quota.
C32_MarkersClassify ==
    [][(ev'.kind \in {"gen_error", "empty"} /\ ev' # ev) =>
            /\ ClassifiedAsQuota <=> HasMarker(ev'.msg)
            /\ ev'.msg = <<"q", "u", "o", "t", "a">> => ~ClassifiedAsQuota
            /\ ev'.kind = "empty" => (ev'.msg = EmptyResponseMessage /\ ~ClassifiedAsQuota)
      ]_vars

\* C32 witness: the first model failed with "429 Too Many" and has an entry, the
\* second failed with the message "quota" and has none.
C32_Witness ==
    /\ pc = "loop"
    /\ ev.kind = "gen_error"
    /\ ev.msg = <<"q", "u", "o", "t", "a">>
    /\ attempts = <<Attempt(ModelNames[1], "quota"), Attempt(ModelNames[2], "failure")>>
    /\ DOMAIN _model_quota_timestamps = {ModelNames[1]}

\* the configuration names one model, as a list of size 1 or as a str
SingleModel == config_model.is_str \/ Len(config_model.list) = 1

\* that model
TheModel == IF config_model.is_str THEN config_model.str ELSE config_model.list[1]

\* the seconds line 165 computes at the end of a pass that skipped every model
CooldownWaitSeconds ==
    LET r == IF DOMAIN _model_quota_timestamps = {} \/ MinRemaining > 60 * TicksPerSecond
             THEN 60 * TicksPerSecond ELSE MinRemaining
    IN  (IF r >= 0 THEN r \div TicksPerSecond ELSE -((-r) \div TicksPerSecond)) + 1

\* the rules of the general algorithm at the end of a pass, read for one model
SingleModelPassEnd ==
    IF cycle = 2
    THEN /\ result' = Returned(fallback(recipient_name, context), "fallback")
         /\ sleeps' = sleeps
    ELSE IF models_tried_this_cycle = 1
    THEN /\ sleeps' = Append(sleeps, 3)
         /\ pc' = "loop"
         /\ cycle' = cycle + 1
    ELSE /\ models_in_cooldown = 1
         /\ IF CooldownWaitSeconds < 0
            THEN result' = Raised("ValueError")
            ELSE /\ sleeps' = Append(sleeps, CooldownWaitSeconds)
                 /\ pc' = "loop"
                 /\ cycle' = cycle + 1

\* C33: with one model, given as a list of size 1 or as a single string, the call
\* iterates over the list holding just that model and runs the general algorithm:
\* in each of at most 3 passes the model is either skipped for cooldown or
\* attempted once, and a pass ends by the general rules (cooldown wait after a
\* skip, 3 second pause after a failed attempt, fallback after the final pass).
C33_SingleModelSameAlgorithm ==
    /\ []((SingleModel /\ pc = "loop") =>
            /\ model_list = <<TheModel>>
            /\ cycle \in 0..2
            /\ models_tried_this_cycle + models_in_cooldown = model_index - 1
            /\ model_index \in 1..2
            /\ Len(attempts) <= cycle + 1
            /\ \A i \in DOMAIN attempts : attempts[i].model = TheModel)
    /\ [][(SingleModel /\ PassOver) => SingleModelPassEnd]_vars

\* C33 witness: the model was given as a single string; it was attempted once in
\* each of the three passes and failed, with a 3 second pause after the first two,
\* and the call returned the fallback content.
C33_Witness ==
    /\ CallOver
    /\ config_model.is_str
    /\ attempts = <<Attempt(config_model.str, "failure"), Attempt(config_model.str, "failure"),
                    Attempt(config_model.str, "failure")>>
    /\ sleeps = <<3, 3>>
    /\ result = Returned(fallback(recipient_name, context), "fallback")

\* C34: once llm_generator._quota_exhausted is set, a later call of
\* generate_email_content returns the fallback content at once: it never enters
\* the cycle loop, invokes no model and does not sleep.
C34_FlagShortCircuits ==
    (_quota_exhausted /\ ev.kind # "flag") =>
        /\ pc = "idle"
        /\ result = Returned(fallback(recipient_name, context), "fallback")
        /\ attempts = <<>>
        /\ sleeps = <<>>

\* the callback reported an error: its query carries the parameter "error"
ReportedError == callback.received /\ callback.error # None
\* the callback carried a state equal to the state generated for this authentication
StateMatches == callback.received /\ callback.state = state
\* the last authenticate call went past line 257 and has returned
NewAuthOver == auth_pc = "idle" /\ auth_result.path = "new"

\* C35: authenticate posts an authorization code to the token endpoint, and
\* returns an access token from a new authorization, only if the callback
\* reported no error, carried a code and carried the state generated for this
\* authentication; after a missing callback, an error or a state mismatch it
\* returns None and has saved no token.
C35_ExchangeOnlyAfterValidCallback ==
    NewAuthOver =>
        /\ (exchanged # <<>> \/ auth_result.value # None) =>
              /\ callback.received
              /\ ~ReportedError
              /\ callback.code # None
              /\ StateMatches
        /\ (~callback.received \/ ReportedError \/ ~StateMatches) =>
              /\ auth_result.value = None
              /\ ~saved
              /\ exchanged = <<>>

====
